---- MODULE Spec2Model ----
(***************************************************************************)
(* Daily Ad Agent: the chat turn (api/agent.py, services/agent_service.py), *)
(* the publish paths (agents/tools/execution_tools.py, api/drafts.py) and   *)
(* the QA/Safety agent (agents/qa_safety_agent.py).                         *)
(*                                                                         *)
(* Texts are TLA+ strings; Len, SubSeq and \o act on them as Python's len,  *)
(* slicing and + do.                                                        *)
(***************************************************************************)
EXTENDS Integers, Sequences, FiniteSets, TLC

VARIABLES
    \* ---- QA/Safety agent (validate_ad as a pure function of its input)
    gpc,            \* "input" before the first validate_ad call, "validated" after it
    draft,          \* the draft dict handed to validate_ad
    default_budget, \* QASafetyAgent.default_budget
    validation,     \* the dict the last validate_ad call returned
    calls,          \* validate_ad calls made on the draft so far
    check,          \* the dict pre_publish_check returned
    \* ---- stored data and the ad platform
    drafts,         \* AdDraft rows of the user: draft id -> row
    published,      \* PublishedCampaign rows, in creation order
    campaigns,      \* objects created on the ad platform, in creation order
    hasPage,        \* a FacebookPage with is_primary exists for the user
    fbConnected,    \* a FacebookConnection and a primary AdAccount exist for the user
    messages,       \* Message rows of the conversation, in creation order
    endpointCalls,  \* POST /drafts/<id>/publish requests served so far
    \* ---- one chat request
    llm,            \* AgentService.llm: "none" (not initialised), "ok", "badkey"
    hasExecutor,    \* AgentService.agent_executor is not None
    connected,      \* the HTTP client is still reading the stream
    pc,             \* position of the request and of its generators
    iterations,     \* AgentExecutor's iteration counter
    pending,        \* tool requests of the current round not yet run
    requested,      \* every tool request of the turn, in the order the model listed them
    steps,          \* intermediate_steps: [action, observation] in execution order
    out_text,       \* the string a "for char in ..." loop is streaming
    cursor,         \* index of the next step / character to yield
    full_response,  \* generate()'s accumulator
    stream,         \* server-sent events written so far
    modelCalls,     \* model invocations of the turn
    toolRuns,       \* tool executions of the turn (every tool.run call)
    createCalls,    \* ExecutionAgent.create_campaign calls of the turn: the draft ids
    lostAt,         \* iterations when the client went away, -1 while it is connected
    sessionFailed,  \* a commit of the request's db session failed and was not rolled back
    lastReply,      \* the tool requests the model made in its previous round
    freeRounds,     \* rounds left in which the model chooses freely; -1 once it only repeats
    faultBudget,    \* collaborator failures left to inject
    \* ---- conversations of the user
    conversations,  \* Conversation rows, in creation order
    workspace_pages,\* WorkspacePage rows of the workspace: page id -> row
    setup_completed,\* Workspace.setup_completed
    last_call,      \* the last call served: its name, whether it raised, the rows it made
    \* ---- context assembly (MemoryRetrievalService)
    ctx_args,       \* the arguments of get_context_for_chat and what its collaborators hold
    context,        \* the dict get_context_for_chat returned
    \* ---- copy generation
    copy_args,      \* the arguments of a copy-generation call and what the model replies
    variants,       \* the call's outcome: whether it was made, and the list it returned
    \* ---- the message history over several requests
    history,        \* the chat_history the last turn gave to the model
    open_turns,     \* chat turns whose answer is not stored yet: the index of each one's
                    \* user message
    sent,           \* messages stored in this behaviour
    \* ---- requests to the chat service that run at the same time
    inflight        \* per request: the operation, the checks it still has to make, the
                    \* rows its session holds, and whether it is through

gateVars == <<gpc, draft, default_budget, validation, calls, check>>
dataVars == <<drafts, published, campaigns, hasPage, fbConnected, messages, endpointCalls>>
turnVars == <<llm, hasExecutor, connected, pc, iterations, pending,
              requested, steps, out_text, cursor, full_response, stream, modelCalls,
              toolRuns, createCalls, lostAt, sessionFailed, lastReply, freeRounds,
              faultBudget>>
chatVars == <<conversations, workspace_pages, setup_completed, last_call>>
memVars == <<ctx_args, context>>
histVars == <<history, open_turns, sent>>
auxVars == <<copy_args, variants, histVars, inflight>>
vars == <<gateVars, dataVars, turnVars, chatVars, memVars, auxVars>>

(***************************************************************************)
(* Bounds of the model.                                                    *)
(***************************************************************************)
\* how far beyond a character limit the enumerated field lengths go
MaxOver == 2
\* the first rounds of a turn, in which the model chooses its requests freely; after
\* them it answers, or, if it has asked for the same in every round so far, it goes on
\* asking for it in every round that follows
MaxFreeRounds == 2
\* collaborator failures (platform, storage, network) injected in one behaviour; in the
\* agent loop they, and the client going away, strike in the rounds the model chooses
\* freely
MaxFaults == 1
\* POST /drafts/<id>/publish requests served in one behaviour
MaxEndpointCalls == 2
\* Conversation rows created in one behaviour
MaxConversations == 3
\* messages stored in one behaviour, on top of the stored history
MaxSent == 4
\* chat turns of one conversation that stream at the same time
MaxOpenTurns == 2
\* requests to the chat service in one behaviour
MaxRequests == 2

(***************************************************************************)
(* String helpers.                                                         *)
(***************************************************************************)
RECURSIVE Rep(_, _)
Rep(c, n) ==
    IF n <= 0 THEN "" ELSE IF n = 1 THEN c
    ELSE Rep(c, n \div 2) \o Rep(c, n - (n \div 2))

\* Python: term in text
Contains(text, term) ==
    \E i \in 1..(Len(text) - Len(term) + 1) : SubSeq(text, i, i + Len(term) - 1) = term

\* Python: text.count(c) for a one-character c
Count(text, c) == Cardinality({i \in 1..Len(text) : SubSeq(text, i, i) = c})

UpperLetters ==
    <<"A", "B", "C", "D", "E", "F", "G", "H", "I", "J", "K", "L", "M",
      "N", "O", "P", "Q", "R", "S", "T", "U", "V", "W", "X", "Y", "Z">>
LowerLetters ==
    <<"a", "b", "c", "d", "e", "f", "g", "h", "i", "j", "k", "l", "m",
      "n", "o", "p", "q", "r", "s", "t", "u", "v", "w", "x", "y", "z">>

\* Python: c.lower() for one character
LowerChar(c) ==
    IF \E k \in 1..Len(UpperLetters) : UpperLetters[k] = c
    THEN LowerLetters[CHOOSE k \in 1..Len(UpperLetters) : UpperLetters[k] = c]
    ELSE c

\* Python: text.lower()
RECURSIVE Lower(_)
Lower(text) ==
    IF Len(text) = 0 THEN ""
    ELSE IF Len(text) = 1 THEN LowerChar(text)
    ELSE Lower(SubSeq(text, 1, Len(text) \div 2))
         \o Lower(SubSeq(text, (Len(text) \div 2) + 1, Len(text)))

\* Python: w.isupper(): at least one cased character and no lowercase one
IsUpper(w) ==
    /\ \E i \in 1..Len(w) : \E k \in 1..Len(UpperLetters) : SubSeq(w, i, i) = UpperLetters[k]
    /\ \A i \in 1..Len(w) : \A k \in 1..Len(LowerLetters) : SubSeq(w, i, i) # LowerLetters[k]

\* Python: text.split(): the maximal runs of non-blank characters, in order
RECURSIVE Split(_)
Split(text) ==
    IF Len(text) = 0 THEN <<>>
    ELSE IF SubSeq(text, 1, 1) = " " THEN Split(SubSeq(text, 2, Len(text)))
    ELSE LET blanks == {i \in 1..Len(text) : SubSeq(text, i, i) = " "}
             stop == IF blanks = {} THEN Len(text) + 1
                     ELSE CHOOSE i \in blanks : \A j \in blanks : i <= j
         IN <<SubSeq(text, 1, stop - 1)>> \o Split(SubSeq(text, stop, Len(text)))

\* the terms of the list that occur in text (each compared in lower case), in list order
RECURSIVE SelectTerms(_, _)
SelectTerms(terms, text) ==
    IF terms = <<>> THEN <<>>
    ELSE (IF Contains(text, Lower(Head(terms))) THEN <<Head(terms)>> ELSE <<>>)
         \o SelectTerms(Tail(terms), text)

(***************************************************************************)
(* QASafetyAgent (agents/qa_safety_agent.py).                              *)
(***************************************************************************)
PROHIBITED_WORDS ==
    <<"cure", "miracle", "guaranteed", "risk-free", "no risk",
      "get rich", "make money fast", "weight loss guarantee">>

SENSITIVE_WORDS ==
    <<"diet", "weight", "body", "skin", "age", "beauty",
      "health", "medicine", "treatment", "doctor">>

CHAR_LIMITS == [primary_text |-> 300, headline |-> 40, description |-> 90]

CharLimitFields == <<"primary_text", "headline", "description">>

\* field.replace('_', ' ').title() for the three fields the check visits
FieldTitle(field) ==
    CASE field = "primary_text" -> "Primary Text"
      [] field = "headline" -> "Headline"
      [] field = "description" -> "Description"

\* draft.get(key, default)
Get(d, key, default) == IF key \in DOMAIN d THEN d[key] ELSE default

CharLimitIssue(field, content) ==
    FieldTitle(field) \o " exceeds limit (" \o ToString(Len(content)) \o "/"
        \o ToString(CHAR_LIMITS[field]) \o " characters)"

\* a mutant of ExceedsLimit: the comparison is off by one
ExceedsLimitOffByOne(content, limit) == Len(content) >= limit

ExceedsLimit(content, limit) == Len(content) > limit

RECURSIVE CharIssuesFrom(_, _)
CharIssuesFrom(d, fields) ==
    IF fields = <<>> THEN <<>>
    ELSE LET field == Head(fields)
             content == Get(d, field, "")
         IN (IF ExceedsLimit(content, CHAR_LIMITS[field])
             THEN <<CharLimitIssue(field, content)>> ELSE <<>>)
            \o CharIssuesFrom(d, Tail(fields))

\* _check_character_limits
CheckCharacterLimits(d) == CharIssuesFrom(d, CharLimitFields)

\* a mutant of AllText: the text is scanned as it was written
AllTextAsWritten(d) ==
    Get(d, "primary_text", "") \o " " \o Get(d, "headline", "") \o " "
        \o Get(d, "description", "")

\* ' '.join([primary_text, headline, description]).lower()
AllText(d) ==
    Lower(Get(d, "primary_text", "") \o " " \o Get(d, "headline", "") \o " "
          \o Get(d, "description", ""))

ViolationMsg(word) ==
    "Potential policy violation: '" \o word \o "' may not be allowed in ads"

SensitiveMsg(word) ==
    "Sensitive content detected: '" \o word \o "' may require additional review"

MapMsg(words, kind) ==
    [i \in 1..Len(words) |->
        IF kind = "violation" THEN ViolationMsg(words[i]) ELSE SensitiveMsg(words[i])]

\* the characters the emoji pattern matches; the model's alphabet holds none
EmojiChars == {}

\* _check_policy_violations
CheckPolicyViolations(d) ==
    LET all_text == AllText(d)
        words == Split(all_text)
        caps_words == {i \in 1..Len(words) : IsUpper(words[i]) /\ Len(words[i]) > 2}
    IN [violations |-> MapMsg(SelectTerms(PROHIBITED_WORDS, all_text), "violation"),
        warnings |->
            MapMsg(SelectTerms(SENSITIVE_WORDS, all_text), "sensitive")
            \o (IF Count(all_text, "!") > 3
                THEN <<"Excessive exclamation marks may reduce ad quality">> ELSE <<>>)
            \o (IF Cardinality(caps_words) > 3
                THEN <<"Excessive capitalization may violate ad policies">> ELSE <<>>)
            \o (IF \E i \in 1..Len(all_text) : SubSeq(all_text, i, i) \in EmojiChars
                THEN <<"Contains emojis - ensure they're appropriate for your audience">>
                ELSE <<>>)]

\* a mutant of CheckBudget: the milder tier is tested before the higher one
CheckBudgetMildFirst(d, defaultBudget) ==
    LET budget == Get(d, "budget", 0)
    IN IF budget <= 0 THEN <<"No budget specified - using default">>
       ELSE IF budget > defaultBudget * 2
       THEN <<"Budget ($" \o ToString(budget) \o ") is higher than your typical daily budget">>
       ELSE IF budget > defaultBudget * 5
       THEN <<"Budget ($" \o ToString(budget) \o ") is significantly higher than your usual ($"
              \o ToString(defaultBudget) \o "). Are you sure?">>
       ELSE <<>>

\* _check_budget
CheckBudget(d, defaultBudget) ==
    LET budget == Get(d, "budget", 0)
    IN IF budget <= 0 THEN <<"No budget specified - using default">>
       ELSE IF budget > defaultBudget * 5
       THEN <<"Budget ($" \o ToString(budget) \o ") is significantly higher than your usual ($"
              \o ToString(defaultBudget) \o "). Are you sure?">>
       ELSE IF budget > defaultBudget * 2
       THEN <<"Budget ($" \o ToString(budget) \o ") is higher than your typical daily budget">>
       ELSE <<>>

\* _check_targeting; an audience is a record with some of interests (a count),
\* age_min, age_max, countries (a count); the empty record is "no audience"
CheckTargeting(d) ==
    LET audience == Get(d, "target_audience", <<>>)
    IN IF DOMAIN audience = {}
       THEN <<"No targeting specified - ad will use broad targeting">>
       ELSE (IF Get(audience, "interests", 0) > 10
             THEN <<"Many interests selected - this may limit reach">> ELSE <<>>)
            \o (IF Get(audience, "age_max", 65) - Get(audience, "age_min", 18) < 10
                THEN <<"Very narrow age range may limit reach">> ELSE <<>>)
            \o (IF Get(audience, "countries", 0) = 0
                THEN <<"No geographic targeting - consider specifying regions">> ELSE <<>>)

\* 'can_publish': len(issues) == 0
CanPublish(issues) == Len(issues) = 0

\* a mutant of NeedsConfirmation: warnings never ask for a confirmation
NeedsConfirmationNever(warnings) == FALSE

\* 'requires_confirmation': len(warnings) > 0
NeedsConfirmation(warnings) == Len(warnings) > 0

\* validate_ad
ValidateAd(d, defaultBudget) ==
    LET policy == CheckPolicyViolations(d)
        issues == CheckCharacterLimits(d) \o policy.violations
        warnings == policy.warnings \o CheckBudget(d, defaultBudget) \o CheckTargeting(d)
    IN [is_valid |-> Len(issues) = 0,
        issues |-> issues,
        warnings |-> warnings,
        can_publish |-> CanPublish(issues),
        requires_confirmation |-> NeedsConfirmation(warnings)]

NoValidation ==
    [is_valid |-> FALSE, issues |-> <<>>, warnings |-> <<>>,
     can_publish |-> FALSE, requires_confirmation |-> FALSE]

\* Python: not value, for a value that is a string or absent
Falsy(value) == value = ""

\* check_media: no analysis is made; a missing media_url gives a warning
CheckMedia(media_url) ==
    [is_valid |-> TRUE,
     issues |-> <<>>,
     warnings |-> IF Falsy(media_url)
                  THEN <<"No media attached - text-only ads may perform worse">>
                  ELSE <<>>]

\* "\n".join(f"- {line}" for line in lines)
RECURSIVE BulletLines(_)
BulletLines(lines) ==
    IF lines = <<>> THEN ""
    ELSE "- " \o Head(lines)
         \o (IF Tail(lines) = <<>> THEN "" ELSE "\n" \o BulletLines(Tail(lines)))

\* pre_publish_check
PrePublishCheck(d, defaultBudget) ==
    LET ad_validation == ValidateAd(d, defaultBudget)
        media_validation == CheckMedia(Get(d, "media_url", ""))
        all_issues == ad_validation.issues \o media_validation.issues
        all_warnings == ad_validation.warnings \o media_validation.warnings
    IN [can_publish |-> CanPublish(all_issues),
        requires_confirmation |-> NeedsConfirmation(all_warnings),
        issues |-> all_issues,
        warnings |-> all_warnings,
        message |->
            IF all_issues # <<>>
            THEN "Cannot publish due to the following issues:\n" \o BulletLines(all_issues)
            ELSE IF all_warnings # <<>>
            THEN "Ready to publish with the following notes:\n" \o BulletLines(all_warnings)
                 \o "\n\nDo you want to proceed?"
            ELSE "All checks passed. Ready to publish!"]

NoCheck ==
    [can_publish |-> FALSE, requires_confirmation |-> FALSE, issues |-> <<>>,
     warnings |-> <<>>, message |-> ""]

(***************************************************************************)
(* Inputs of validate_ad.                                                  *)
(***************************************************************************)
\* the lengths tried for a field with the given limit (310 is the spec's Scenario A)
FieldLengths(limit) == {2, limit - 1, limit} \cup {limit + k : k \in 1..MaxOver} \cup {limit + 10}

DraftInputs ==
    {[primary_text |-> Rep("x", p), headline |-> Rep("x", h),
      description |-> Rep("x", d), budget |-> 50] :
        p \in FieldLengths(300), h \in FieldLengths(40), d \in FieldLengths(90)}
    \cup
    \* a draft dict without the optional description key
    {[primary_text |-> Rep("x", p), headline |-> Rep("x", h), budget |-> 50] :
        p \in FieldLengths(300), h \in FieldLengths(40)}

\* validate_ad is not being exercised
GateOff ==
    /\ gpc = "off" /\ draft = <<>> /\ default_budget = 50 /\ validation = NoValidation
    /\ calls = 0 /\ check = NoCheck

\* Python's None
None == "None"

NoCall == [op |-> "none", raised |-> FALSE, created |-> 0]

\* no conversation exists yet and the workspace is not set up
ChatOff ==
    /\ conversations = <<>> /\ workspace_pages = <<>> /\ setup_completed = FALSE
    /\ last_call = NoCall

\* get_context_for_chat has not been called
NoContext == [called |-> FALSE]

MemOff == ctx_args = <<>> /\ context = NoContext

\* no copy-generation call has been made
NoVariants == [called |-> FALSE]

CopyOff == copy_args = <<>> /\ variants = NoVariants

\* no turn has read the history
NoHistory == [called |-> FALSE]

HistOff == history = NoHistory /\ open_turns = {} /\ sent = 0

\* no request to the chat service is under way
RaceOff == inflight = <<>>

AuxOff == CopyOff /\ HistOff /\ RaceOff

\* no chat turn and no publish request is in flight, no draft is stored
QuietRequest ==
    /\ drafts = <<>> /\ published = <<>> /\ campaigns = <<>> /\ hasPage = FALSE
    /\ fbConnected = FALSE /\ endpointCalls = 0
    /\ llm = "none" /\ hasExecutor = FALSE /\ connected = TRUE
    /\ pc = "off" /\ iterations = 0 /\ pending = <<>> /\ requested = <<>>
    /\ steps = <<>> /\ out_text = "" /\ cursor = 0 /\ full_response = ""
    /\ stream = <<>> /\ modelCalls = 0 /\ toolRuns = 0 /\ createCalls = <<>>
    /\ lostAt = -1 /\ sessionFailed = FALSE /\ lastReply = <<>> /\ freeRounds = 0
    /\ faultBudget = 0

\* no request is in flight and nothing is stored
QuietData ==
    /\ ChatOff
    /\ messages = <<>>
    /\ QuietRequest

\* the turn and the stored data stay as constructed while validate_ad is exercised
Quiet ==
    /\ MemOff /\ AuxOff
    /\ QuietData

\* the texts tried for primary_text
PolicyTexts ==
    {"valid text", "wow!!! buy", "wow!!!! buy", "BUY BIG RED now", "BUY BIG RED CAT",
     "Miracle tea", "a package", "Guaranteed diet cure"}

PolicyHeadlines == {"ok", "RISK-FREE TEA!"}

\* budgets around the tiers of both defaults; 500 is the spec's Scenario B
PolicyBudgets == {-10, 0, 1, 40, 41, 100, 101, 250, 251, 500}

\* target_audience dicts: interests and countries by their number of entries
PolicyAudiences ==
    {[interests |-> 11, age_min |-> 20, age_max |-> 25, countries |-> 0],
     [interests |-> 2, countries |-> 1]}

PolicyDefaults == {20, 50}

\* the keys a draft dict may lack
OptionalKeys == {"budget", "target_audience", "media_url"}

Restrict(d, keys) == [k \in keys |-> d[k]]

PolicyInputs ==
    {Restrict([primary_text |-> t, headline |-> h, budget |-> b, target_audience |-> a,
               media_url |-> "http://img"],
              {"primary_text", "headline"} \cup opt) :
        t \in PolicyTexts, h \in PolicyHeadlines, b \in PolicyBudgets,
        a \in PolicyAudiences, opt \in SUBSET OptionalKeys}

GateInit ==
    /\ gpc = "input"
    /\ \/ draft \in DraftInputs /\ default_budget = 50
       \/ draft \in PolicyInputs /\ default_budget \in PolicyDefaults
    /\ validation = NoValidation
    /\ calls = 0
    /\ check = NoCheck
    /\ Quiet

\* a mutant of DraftAfterValidate: the headline is cut to its limit in place
DraftAfterValidateCutting(d) ==
    IF Len(d.headline) > 40 THEN [d EXCEPT !.headline = SubSeq(@, 1, 40)] ELSE d

\* what validate_ad leaves in the dict it was given: it only reads it, with .get
DraftAfterValidate(d) == d

\* qa.validate_ad(draft), a first and a second time
Validate ==
    /\ gpc \in {"input", "validated"}
    /\ calls < 2
    /\ validation' = ValidateAd(draft, default_budget)
    /\ draft' = DraftAfterValidate(draft)
    /\ calls' = calls + 1
    /\ gpc' = "validated"
    /\ UNCHANGED <<default_budget, check, dataVars, turnVars, chatVars, memVars, auxVars>>

\* qa.pre_publish_check(draft)
PrePublish ==
    /\ gpc \in {"input", "validated"}
    /\ check = NoCheck
    /\ check' = PrePublishCheck(draft, default_budget)
    /\ UNCHANGED <<gpc, draft, default_budget, validation, calls, dataVars, turnVars,
                   chatVars, memVars, auxVars>>

GateNext == Validate \/ PrePublish

GateSpec == GateInit /\ [][GateNext]_vars

(***************************************************************************)
(* Conversations: the model class and the paths that create its rows.      *)
(***************************************************************************)
\* Conversation.VALID_STATES
VALID_STATES ==
    <<"idle", "discovery", "ideation", "drafting", "review", "ready_to_publish", "published">>

\* a mutant of IsValidState: every name is taken
IsValidStateAny(new_state) == TRUE

\* "new_state in self.VALID_STATES"
IsValidState(new_state) == \E k \in 1..Len(VALID_STATES) : VALID_STATES[k] = new_state

\* Conversation.set_state: the row after the call
SetStateRow(row, new_state) ==
    IF IsValidState(new_state) THEN [row EXCEPT !.state = new_state] ELSE row

\* a mutant of Flush: a column left out stays None
FlushAsGiven(row) == row

\* the INSERT of a Conversation: a column the constructor was not given takes its
\* default (chat_type LEGACY, state 'idle')
Flush(row) ==
    [row EXCEPT !.chat_type = IF @ = None THEN "legacy" ELSE @,
                !.state = IF @ = None THEN "idle" ELSE @]

\* the Conversation chat() constructs when the request names no conversation
ChatConversation(workspace_id, page_id) ==
    [chat_type |-> IF page_id # None THEN "page_war_room"
                   ELSE IF workspace_id # None THEN "account_overview" ELSE "legacy",
     workspace_id |-> workspace_id, workspace_page_id |-> page_id, state |-> "idle"]

\* the Conversation create_conversation constructs
PlainConversation ==
    [chat_type |-> None, workspace_id |-> None, workspace_page_id |-> None,
     state |-> "idle"]

\* the Account Overview chat the chat service constructs
OverviewChat(workspace_id) ==
    [chat_type |-> "account_overview", workspace_id |-> workspace_id,
     workspace_page_id |-> None, state |-> "idle"]

\* the Page War Room chat the chat service constructs
PageChat(workspace_id, workspace_page_id) ==
    [chat_type |-> "page_war_room", workspace_id |-> workspace_id,
     workspace_page_id |-> workspace_page_id, state |-> "idle"]

\* the Account Overview conversation setup_pages constructs: no state is passed
SetupOverviewConv(workspace_id) ==
    [chat_type |-> "account_overview", workspace_id |-> workspace_id,
     workspace_page_id |-> None, state |-> None]

\* the Page War Room conversation setup_pages constructs: no state is passed
SetupPageConv(workspace_id, workspace_page_id) ==
    [chat_type |-> "page_war_room", workspace_id |-> workspace_id,
     workspace_page_id |-> workspace_page_id, state |-> None]

\* the workspace of the user and the pages a setup request can name, in request order
TheWorkspace == "w1"
PageOrder == <<"p1">>

\* the user of the requests, and a workspace that belongs to another user
TheUser == "u1"
OtherWorkspace == "w2"

\* Workspace.user_id
OwnerOf(workspace_id) == IF workspace_id = TheWorkspace THEN TheUser ELSE "u2"

\* WorkspacePage.workspace_id
WorkspaceOf(page_id) == IF page_id = PageOrder[1] THEN TheWorkspace ELSE OtherWorkspace

\* Conversation.query.filter_by(workspace_id=..., chat_type=ACCOUNT_OVERVIEW).first()
HasOverview(workspace_id) ==
    \E i \in 1..Len(conversations) :
        /\ conversations[i].workspace_id = workspace_id
        /\ conversations[i].chat_type = "account_overview"

\* Conversation.query.filter_by(workspace_page_id=..., chat_type=PAGE_WAR_ROOM).first()
HasPageChat(workspace_page_id) ==
    \E i \in 1..Len(conversations) :
        /\ conversations[i].workspace_page_id = workspace_page_id
        /\ conversations[i].chat_type = "page_war_room"

\* db.session.add of each row, then commit
Commit(rows, op) ==
    /\ Len(conversations) + Len(rows) <= MaxConversations
    /\ conversations' = conversations \o [i \in 1..Len(rows) |-> Flush(rows[i])]
    /\ last_call' = [op |-> op, raised |-> FALSE, created |-> Len(rows)]

convFrame == <<auxVars, memVars, gateVars, drafts, published, campaigns, hasPage, fbConnected,
               endpointCalls, turnVars>>

\* chat() up to the start of the stream, for a request without conversation_id; the
\* stream itself is the turn below
ChatCreates ==
    /\ pc = "off"
    /\ \E workspace_id \in {None, TheWorkspace, OtherWorkspace},
          page_id \in {None, PageOrder[1]} :
          Commit(<<ChatConversation(workspace_id, page_id)>>, "chat")
    /\ messages' = Append(messages, [role |-> "user", content |-> "hi"])
    /\ UNCHANGED <<workspace_pages, setup_completed, convFrame>>

\* create_conversation (POST /conversations)
CreateConversation ==
    /\ pc = "off"
    /\ Commit(<<PlainConversation>>, "create_conversation")
    /\ UNCHANGED <<workspace_pages, setup_completed, messages, convFrame>>

\* ChatService.get_or_create_overview_chat when no overview chat exists
GetOrCreateOverviewChat ==
    /\ pc = "off"
    /\ ~HasOverview(TheWorkspace)
    /\ Commit(<<OverviewChat(TheWorkspace)>>, "get_or_create_overview_chat")
    /\ UNCHANGED <<workspace_pages, setup_completed, messages, convFrame>>

\* ChatService.get_or_create_page_chat when the page has no chat
GetOrCreatePageChat ==
    /\ pc = "off"
    /\ \E p \in DOMAIN workspace_pages :
          /\ ~HasPageChat(p)
          /\ Commit(<<PageChat(TheWorkspace, p)>>, "get_or_create_page_chat")
    /\ UNCHANGED <<workspace_pages, setup_completed, messages, convFrame>>

\* the pages of the list that are included and have no chat yet
PagesToOpen(pages) ==
    SelectSeq(PageOrder, LAMBDA p : p \in DOMAIN pages /\ pages[p].is_included
                                     /\ ~HasPageChat(p))

\* ChatService.create_workspace_chats
CreateWorkspaceChats ==
    /\ pc = "off"
    /\ LET open == PagesToOpen(workspace_pages) IN
       Commit((IF HasOverview(TheWorkspace) THEN <<>> ELSE <<OverviewChat(TheWorkspace)>>)
                 \o [i \in 1..Len(open) |-> PageChat(TheWorkspace, open[i])],
              "create_workspace_chats")
    /\ UNCHANGED <<workspace_pages, setup_completed, messages, convFrame>>

\* setup_pages (POST /workspaces/<id>/setup/pages)
SetupPages ==
    /\ pc = "off"
    /\ \E is_included \in BOOLEAN :
          LET pages == [p \in {PageOrder[1]} |-> [is_included |-> is_included]]
              open == PagesToOpen(pages)
          IN /\ workspace_pages' = pages
             /\ Commit((IF HasOverview(TheWorkspace) THEN <<>>
                         ELSE <<SetupOverviewConv(TheWorkspace)>>)
                           \o [i \in 1..Len(open) |-> SetupPageConv(TheWorkspace, open[i])],
                       "setup_pages")
    /\ setup_completed' = TRUE
    /\ UNCHANGED <<messages, convFrame>>

\* the names set_state is called with: the valid ones and some that are not
StateNames ==
    {VALID_STATES[k] : k \in 1..Len(VALID_STATES)} \cup {"archived", "IDLE", ""}

\* conversation.set_state(new_state), on the first conversation of the user
SetState ==
    /\ pc = "off"
    /\ conversations # <<>>
    /\ \E new_state \in StateNames :
          /\ conversations' = [conversations EXCEPT
                                  ![1] = SetStateRow(conversations[1], new_state)]
          /\ last_call' = [op |-> "set_state", raised |-> ~IsValidState(new_state),
                           created |-> 0]
    /\ UNCHANGED <<workspace_pages, setup_completed, messages, convFrame>>

ConvInit == GateOff /\ Quiet

ConvNext ==
    \/ ChatCreates \/ CreateConversation \/ GetOrCreateOverviewChat
    \/ GetOrCreatePageChat \/ CreateWorkspaceChats \/ SetupPages \/ SetState

ConvSpec == ConvInit /\ [][ConvNext]_vars

(***************************************************************************)
(* Context assembly: MemoryRetrievalService.get_context_for_chat.          *)
(***************************************************************************)
\* the workspace page and the product that exist
ThePage == "p1"
TheProduct == "prod1"

\* what get_account_stats does when _get_page_performance calls it: "ok" returns the
\* account's figures; "error" is a platform error, which get_account_stats catches
\* itself and answers with _mock_account_stats; "raises" is an exception that leaves
\* get_account_stats; "none" is a service built without a FacebookService
FetchOutcomes == {"ok", "error", "raises", "none"}

ContextInputs ==
    [chat_type : {"page_war_room", "account_overview", "legacy"},
     page_id : {None, ThePage, "p9"},
     product_id : {None, TheProduct},
     fetch : FetchOutcomes,
     ad_account : BOOLEAN,
     stored_messages : {0, 2}]

\* get_account_stats with figures of the platform
RealStats == [spend |-> 120, clicks |-> 30, is_real_data |-> TRUE]

\* _mock_account_stats
MockStats == [spend |-> 450, clicks |-> 320, is_real_data |-> FALSE]

\* the dict _get_page_performance returns when it has no figures
PerformancePlaceholder == [message |-> "Performance data not available", period_days |-> 7]

\* MemoryRetrievalService._get_page_performance
GetPagePerformance(page_id, a) ==
    IF page_id # ThePage THEN [error |-> "Page not found"]
    ELSE IF ~a.ad_account THEN [message |-> "No ad account connected"]
    ELSE IF a.fetch = "ok" THEN RealStats
    ELSE IF a.fetch = "error" THEN MockStats
    ELSE PerformancePlaceholder

\* the Message rows of the page's war room before the call
StoredMessages(n) ==
    [i \in 1..n |-> [role |-> IF i % 2 = 1 THEN "user" ELSE "assistant", content |-> "hi"]]

Reverse(q) == [i \in 1..Len(q) |-> q[Len(q) + 1 - i]]

\* the first n elements of q, or all of q
Take(q, n) == SubSeq(q, 1, IF Len(q) < n THEN Len(q) ELSE n)

\* _get_page_conversation_history's default limit
HistoryLimit == 50

\* MemoryRetrievalService._get_page_conversation_history: the newest rows first, at
\* most limit of them, then reversed into chronological order
GetPageConversationHistory(page_id, a) ==
    IF page_id = ThePage /\ HasPageChat(page_id)
    THEN Reverse(Take(Reverse(messages), HistoryLimit))
    ELSE <<>>

\* a mutant of MessagesAfterHistory: reverse() acts on the stored rows
MessagesAfterHistoryReversed(rows) == Reverse(rows)

\* the Message rows after _get_page_conversation_history: messages.reverse() acts on
\* the list the query returned, the rows stay as they were
MessagesAfterHistory(rows) == rows

\* MemoryRetrievalService._get_page_settings
GetPageSettings(page_id) ==
    IF page_id = ThePage THEN [page_id |-> page_id, default_tone |-> "friendly"] ELSE <<>>

\* MemoryRetrievalService._get_page_products
GetPageProducts(page_id) ==
    IF page_id = ThePage THEN <<[id |-> TheProduct, is_default |-> TRUE]>> ELSE <<>>

\* MemoryRetrievalService._get_product_context
GetProductContext(product_id) ==
    IF product_id = TheProduct THEN [id |-> product_id, has_images |-> FALSE] ELSE <<>>

\* MemoryRetrievalService._get_workspace_summary
GetWorkspaceSummary == [workspace_id |-> TheWorkspace, pages_count |-> 1]

\* MemoryRetrievalService._get_all_pages_performance
GetAllPagesPerformance(a) ==
    <<[page_id |-> ThePage, performance |-> GetPagePerformance(ThePage, a)]>>

\* MemoryRetrievalService.get_context_for_chat
GetContextForChat(a) ==
    IF a.chat_type = "page_war_room"
    THEN IF a.page_id = None
         THEN <<>>
         ELSE [chat_type |-> "page_war_room",
               page_history |-> GetPageConversationHistory(a.page_id, a),
               page_settings |-> GetPageSettings(a.page_id),
               active_product |-> IF a.product_id # None
                                  THEN GetProductContext(a.product_id) ELSE None,
               page_products |-> GetPageProducts(a.page_id),
               page_performance |-> GetPagePerformance(a.page_id, a)]
    ELSE IF a.chat_type = "account_overview"
    THEN [chat_type |-> "account_overview",
          workspace_summary |-> GetWorkspaceSummary,
          all_pages_performance |-> GetAllPagesPerformance(a),
          pinned_legacy_summary |-> None]
    ELSE [chat_type |-> a.chat_type, workspace_summary |-> GetWorkspaceSummary]

\* the page of the workspace has its war room, with the messages stored so far
ContextInit ==
    /\ GateOff /\ QuietRequest /\ AuxOff
    /\ ctx_args \in ContextInputs
    /\ context = NoContext
    /\ conversations = <<Flush(PageChat(TheWorkspace, ThePage))>>
    /\ workspace_pages = [p \in {ThePage} |-> [is_included |-> TRUE]]
    /\ setup_completed = TRUE
    /\ last_call = NoCall
    /\ messages = StoredMessages(ctx_args.stored_messages)

\* one call of get_context_for_chat
AssembleContext ==
    /\ context = NoContext
    /\ ctx_args # <<>>
    /\ context' = GetContextForChat(ctx_args)
    /\ messages' = IF ctx_args.chat_type = "page_war_room" /\ ctx_args.page_id = ThePage
                   THEN MessagesAfterHistory(messages) ELSE messages
    /\ UNCHANGED <<auxVars, ctx_args, gateVars, drafts, published, campaigns, hasPage, fbConnected,
                   endpointCalls, turnVars, chatVars>>

ContextSpec == ContextInit /\ [][AssembleContext]_vars

(***************************************************************************)
(* Copy generation: AgentService.generate_ad_copy (POST /generate-copy)    *)
(* and CopywriterAgent.generate_copy (the generate_ad_copy tool).          *)
(***************************************************************************)
Variant(n, angle, primary_text, headline, description, cta) ==
    [variant_number |-> n, angle |-> angle, primary_text |-> primary_text,
     headline |-> headline, description |-> description, suggested_cta |-> cta]

\* AgentService._mock_ad_copy: the product description is put into the primary text
MockAdCopy(product_info, num_variants) ==
    Take(<<Variant(1, "Urgency + Discount",
                   "Don't miss out! Our " \o product_info \o " is now 20% off. Limited stock "
                       \o "available - grab yours before they're gone!",
                   "20% Off - Limited Time", "Premium quality, unbeatable price", "shop_now"),
           Variant(2, "Social Proof",
                   "Join thousands of happy customers who love our " \o product_info
                       \o ". See why everyone's talking about it!",
                   "Customer Favorite", "Rated 5 stars by our community", "learn_more"),
           Variant(3, "Quality Focus",
                   "Premium quality meets exceptional design. Experience the difference "
                       \o "with our " \o product_info \o ".",
                   "Quality You Can Trust", "Made with care, built to last", "shop_now")>>,
         num_variants)

\* the JSON arrays the model may answer generate_ad_copy's prompt with: within the
\* limits the prompt names, or not
ModelReplies ==
    {<<Variant(1, "a", Rep("x", 130), Rep("x", 40), Rep("x", 60), "shop_now")>>,
     <<Variant(1, "a", Rep("x", 130), Rep("x", 41), Rep("x", 60), "shop_now")>>,
     <<Variant(1, "a", Rep("x", 301), Rep("x", 30), Rep("x", 91), "shop_now")>>}

\* AgentService.generate_ad_copy
GenerateAdCopy(a) ==
    IF a.llm = "none" THEN MockAdCopy(a.product_info, a.num_variants)
    ELSE IF a.llm = "raises" THEN MockAdCopy(a.product_info, a.num_variants)
    ELSE a.reply

\* CopywriterAgent._parse_copy_response: the reply is not read
ParseCopyResponse(response, angle, num_variants) ==
    [i \in 1..num_variants |->
        Variant(i, angle, "Variant " \o ToString(i) \o " primary text from LLM",
                "Headline " \o ToString(i), "Description " \o ToString(i), "shop_now")]

\* the templates of CopywriterAgent._generate_mock_copy for an angle
MockTemplates(angle) ==
    IF angle = "Social Proof"
    THEN <<[primary_text |-> "Join 10,000+ happy customers who love our products. See why "
                              \o "everyone's talking about it. Rated 5 stars!",
            headline |-> "Customer Favorite", description |-> "Trusted by thousands",
            cta |-> "learn_more"],
           [primary_text |-> "See what the hype is about! Our community can't stop raving "
                              \o "about their experience. Join them today.",
            headline |-> "Join the Community", description |-> "5-star rated by customers",
            cta |-> "shop_now"],
           [primary_text |-> "Thousands of 5-star reviews can't be wrong. Discover what "
                              \o "makes our product the #1 choice.",
            headline |-> "#1 Customer Choice", description |-> "Read the reviews",
            cta |-> "learn_more"]>>
    ELSE <<[primary_text |-> "Premium quality meets exceptional design. Experience the "
                              \o "difference with our handcrafted products.",
            headline |-> "Quality You Can Feel", description |-> "Crafted with care",
            cta |-> "shop_now"],
           [primary_text |-> "Invest in the best. Our premium materials and attention to "
                              \o "detail set us apart. You deserve quality.",
            headline |-> "Premium Collection", description |-> "Built to last",
            cta |-> "shop_now"],
           [primary_text |-> "Excellence in every detail. From materials to finish, we "
                              \o "obsess over quality so you don't have to.",
            headline |-> "Uncompromising Quality",
            description |-> "The difference is clear", cta |-> "learn_more"]>>

\* CopywriterAgent._generate_mock_copy
GenerateMockCopy(angle, num_variants) ==
    LET t == Take(MockTemplates(angle), num_variants) IN
    [i \in 1..Len(t) |->
        Variant(i, angle, t[i].primary_text, t[i].headline, t[i].description, t[i].cta)]

\* CopywriterAgent.generate_copy, as GenerateAdCopyTool._run calls it: the brief text
\* is the angle name
GenerateCopy(a) ==
    IF a.llm = "ok" THEN ParseCopyResponse(a.reply, a.product_info, a.num_variants)
    ELSE GenerateMockCopy(a.product_info, a.num_variants)

\* the product descriptions and brief texts tried
ProductInfos == {"Social Proof", "tea", Rep("x", 200), Rep("x", 210)}

CopyInputs ==
    [via : {"generate_copy_endpoint", "generate_ad_copy_tool"},
     llm : {"none", "ok", "raises"},
     reply : ModelReplies,
     product_info : ProductInfos,
     num_variants : {1, 2, 3, 5}]

CopyInit ==
    /\ GateOff /\ QuietData /\ MemOff /\ HistOff /\ RaceOff
    /\ copy_args \in CopyInputs
    /\ variants = NoVariants

\* one copy-generation call
GenerateVariants ==
    /\ variants = NoVariants
    /\ copy_args # <<>>
    /\ variants' = [called |-> TRUE,
                    result |-> IF copy_args.via = "generate_copy_endpoint"
                               THEN GenerateAdCopy(copy_args) ELSE GenerateCopy(copy_args)]
    /\ UNCHANGED <<copy_args, histVars, inflight, memVars, gateVars, dataVars, turnVars, chatVars>>

CopySpec == CopyInit /\ [][GenerateVariants]_vars

(***************************************************************************)
(* The message history of one conversation over several requests: chat     *)
(* turns (api/agent.py, AgentService._get_conversation_history) and        *)
(* send_message (api/conversations.py).                                    *)
(***************************************************************************)
\* the Message rows a conversation holds when the behaviour starts, oldest first
StoredHistory(n) ==
    [i \in 1..n |-> [role |-> IF i % 2 = 1 THEN "user" ELSE "assistant",
                     content |-> "m" \o ToString(i)]]

\* the number of rows tried for the stored history
HistoryLengths == {0, 18, 19, 20, 21}

\* .limit(20) of _get_conversation_history
WindowLimit == 20

\* AgentService._get_conversation_history: the visible rows ordered by created_at
\* ascending, the first 20 of them, the user and assistant ones as chat messages
GetConversationHistory(rows) ==
    SelectSeq(Take(rows, WindowLimit), LAMBDA m : m.role \in {"user", "assistant"})

\* a mutant of AddMessage: the new row is put before the others
AddMessageFirst(rows, m) == <<m>> \o rows

\* db.session.add(message) and commit: created_at is the time of the call
AddMessage(rows, m) == Append(rows, m)

NextContent == "m" \o ToString(Len(messages) + 1)

msgFrame == <<copy_args, variants, inflight, memVars, gateVars, chatVars, drafts, published,
              campaigns, hasPage, fbConnected, endpointCalls, turnVars>>

\* chat(): the user message is stored, then AgentService.chat reads the history
TurnBegins ==
    /\ sent < MaxSent /\ Cardinality(open_turns) < MaxOpenTurns
    /\ messages' = AddMessage(messages, [role |-> "user", content |-> NextContent])
    /\ history' = [called |-> TRUE, upto |-> Len(messages) + 1,
                   window |-> GetConversationHistory(messages')]
    /\ open_turns' = open_turns \cup {Len(messages) + 1}
    /\ sent' = sent + 1
    /\ UNCHANGED msgFrame

\* generate(): the stream is through and the assistant message is stored
TurnReplies ==
    /\ sent < MaxSent
    /\ \E t \in open_turns :
          /\ open_turns' = open_turns \ {t}
          /\ messages' = AddMessage(messages,
                                    [role |-> "assistant", content |-> NextContent])
    /\ sent' = sent + 1
    /\ UNCHANGED <<history, msgFrame>>

\* generate(): the stream fails or the client goes away; no assistant message
TurnBreaks ==
    /\ \E t \in open_turns : open_turns' = open_turns \ {t}
    /\ UNCHANGED <<messages, history, sent, msgFrame>>

\* send_message (POST /conversations/<id>/messages)
SendMessage ==
    /\ sent < MaxSent
    /\ messages' = AddMessage(messages, [role |-> "user", content |-> NextContent])
    /\ sent' = sent + 1
    /\ UNCHANGED <<history, open_turns, msgFrame>>

MessageInit ==
    /\ GateOff /\ MemOff /\ CopyOff /\ HistOff /\ RaceOff /\ QuietRequest
    /\ conversations = <<Flush(PlainConversation)>>
    /\ workspace_pages = <<>> /\ setup_completed = FALSE /\ last_call = NoCall
    /\ messages \in {StoredHistory(n) : n \in HistoryLengths}

MessageNext == TurnBegins \/ TurnReplies \/ TurnBreaks \/ SendMessage

MessageSpec == MessageInit /\ [][MessageNext]_vars

(***************************************************************************)
(* Requests that open the chats of a workspace, running at the same time.  *)
(* Each request is its own database session: its queries see the rows that *)
(* are committed, its new rows are seen by the others after its commit.    *)
(***************************************************************************)
Requests == 1..MaxRequests

NotStarted == [op |-> "", todo |-> <<>>, adds |-> <<>>, done |-> FALSE]

RaceOps == {"get_or_create_overview_chat", "get_or_create_page_chat",
            "create_workspace_chats", "setup_pages"}

\* the existence checks of an operation, in the order the code makes them
Checks(op) ==
    IF op = "get_or_create_overview_chat" THEN <<"overview">>
    ELSE IF op = "get_or_create_page_chat" THEN <<ThePage>>
    ELSE <<"overview">> \o PageOrder

\* the query for the chat of a target finds a committed row
ChatExists(target) ==
    IF target = "overview" THEN HasOverview(TheWorkspace) ELSE HasPageChat(target)

\* the row an operation constructs for a target
ChatRow(op, target) ==
    IF op = "setup_pages"
    THEN IF target = "overview" THEN SetupOverviewConv(TheWorkspace)
         ELSE SetupPageConv(TheWorkspace, target)
    ELSE IF target = "overview" THEN OverviewChat(TheWorkspace)
         ELSE PageChat(TheWorkspace, target)

raceFrame == <<copy_args, variants, histVars, memVars, gateVars, drafts, published,
               campaigns, hasPage, fbConnected, endpointCalls, turnVars, messages,
               workspace_pages, last_call>>

\* a request arrives: the workspace (and the page) is found and belongs to the user
RequestStarts ==
    /\ \E r \in Requests, op \in RaceOps :
          /\ inflight[r].op = ""
          /\ inflight' = [inflight EXCEPT ![r] = [op |-> op, todo |-> Checks(op),
                                                  adds |-> <<>>, done |-> FALSE]]
    /\ UNCHANGED <<conversations, setup_completed, raceFrame>>

\* Conversation.query.filter_by(...).first() for the next target, and db.session.add of
\* a new row when there is none; get_or_create returns the row it found
RequestChecks ==
    /\ \E r \in Requests :
          LET q == inflight[r]
              target == Head(q.todo)
              getOrCreate == q.op \in {"get_or_create_overview_chat",
                                       "get_or_create_page_chat"}
          IN /\ q.op # "" /\ ~q.done /\ q.todo # <<>>
             /\ inflight' = [inflight EXCEPT ![r] =
                    IF ChatExists(target)
                    THEN [q EXCEPT !.todo = Tail(q.todo), !.done = getOrCreate]
                    ELSE [q EXCEPT !.todo = Tail(q.todo),
                                   !.adds = Append(q.adds, ChatRow(q.op, target))]]
    /\ UNCHANGED <<conversations, setup_completed, raceFrame>>

\* db.session.commit()
RequestCommits ==
    /\ \E r \in Requests :
          LET q == inflight[r] IN
          /\ q.op # "" /\ ~q.done /\ q.todo = <<>>
          /\ conversations' = conversations \o [i \in 1..Len(q.adds) |-> Flush(q.adds[i])]
          /\ setup_completed' = (setup_completed \/ q.op = "setup_pages")
          /\ inflight' = [inflight EXCEPT ![r].done = TRUE]
    /\ UNCHANGED raceFrame

RaceInit ==
    /\ GateOff /\ MemOff /\ CopyOff /\ HistOff /\ QuietRequest
    /\ messages = <<>> /\ last_call = NoCall
    /\ workspace_pages = [p \in {ThePage} |-> [is_included |-> TRUE]]
    /\ setup_completed = FALSE
    /\ conversations \in {<<>>, <<Flush(OverviewChat(TheWorkspace))>>}
    /\ inflight = [r \in Requests |-> NotStarted]

RaceNext == RequestStarts \/ RequestChecks \/ RequestCommits

RaceSpec == RaceInit /\ [][RaceNext]_vars

(***************************************************************************)
(* The migration of the conversations a user had before the workspace      *)
(* (services/migration_service.py).  The rows carry the archive and pin    *)
(* columns of the Conversation model and the number of their messages.     *)
(***************************************************************************)
\* a stored conversation with the archive and pin columns at their defaults
Stored(row, message_count) ==
    [chat_type |-> row.chat_type, workspace_id |-> row.workspace_id,
     workspace_page_id |-> row.workspace_page_id, state |-> row.state,
     is_archived |-> FALSE, archive_summary |-> None,
     is_pinned |-> FALSE, pinned_content |-> None,
     message_count |-> message_count]

\* the rows a user can have before the migration: made by create_conversation, by the
\* chat endpoint without and with a page, and the overview chat of the workspace
RowsBefore ==
    {Stored(Flush(PlainConversation), n) : n \in {0, 1, 2}}
        \cup {Stored(Flush(ChatConversation(None, PageOrder[1])), n) : n \in {0, 1, 2}}
        \cup {Stored(Flush(OverviewChat(TheWorkspace)), 0)}

\* the number of rows of the user tried
MaxRowsBefore == 2

\* MigrationService.generate_conversation_summary
GenerateConversationSummary(row) ==
    IF row.message_count = 0 THEN "Empty conversation with no messages"
    ELSE "Total messages: " \o ToString(row.message_count)

\* Conversation.user_id == user_id, workspace_id IS NULL, chat_type != LEGACY
IsLegacyConvo(row) == row.workspace_id = None /\ row.chat_type # "legacy"

\* the loop over legacy_convos
Archive(row) ==
    [row EXCEPT !.chat_type = "legacy", !.is_archived = TRUE,
                !.archive_summary = GenerateConversationSummary(row)]

\* json.dumps(pinned_data): the message of the archive
PinnedData(migrated_count) ==
    "Archived " \o ToString(migrated_count) \o " previous conversation"
        \o (IF migrated_count # 1 THEN "s" ELSE "")

\* the index of the first row the overview query returns, 0 when there is none
FirstOverview(rows) ==
    IF \E i \in 1..Len(rows) : rows[i].chat_type = "account_overview"
                                /\ rows[i].workspace_id = TheWorkspace
    THEN CHOOSE i \in 1..Len(rows) :
            /\ rows[i].chat_type = "account_overview" /\ rows[i].workspace_id = TheWorkspace
            /\ \A j \in 1..(i - 1) : ~(rows[j].chat_type = "account_overview"
                                        /\ rows[j].workspace_id = TheWorkspace)
    ELSE 0

\* migrate_legacy_conversations(user_id, workspace_id)
MigrateLegacyConversations ==
    /\ \E workspace_id \in {TheWorkspace, OtherWorkspace} :
          LET legacy_convos == {i \in 1..Len(conversations) : IsLegacyConvo(conversations[i])}
              migrated_count == Cardinality(legacy_convos)
              archived == [i \in 1..Len(conversations) |->
                             IF i \in legacy_convos THEN Archive(conversations[i])
                             ELSE conversations[i]]
              withOverview == IF FirstOverview(archived) = 0
                              THEN Append(archived, Stored(Flush(OverviewChat(workspace_id)), 0))
                              ELSE archived
              o == FirstOverview(withOverview)
          IN \/ \* the workspace is not the user's: ValueError
                /\ OwnerOf(workspace_id) # TheUser
                /\ last_call' = [op |-> "migrate_legacy_conversations", raised |-> TRUE,
                                 created |-> 0]
                /\ UNCHANGED conversations
             \/ \* nothing to migrate
                /\ OwnerOf(workspace_id) = TheUser /\ legacy_convos = {}
                /\ last_call' = [op |-> "migrate_legacy_conversations", raised |-> FALSE,
                                 created |-> 0]
                /\ UNCHANGED conversations
             \/ /\ OwnerOf(workspace_id) = TheUser /\ legacy_convos # {}
                /\ conversations' = [withOverview EXCEPT
                                        ![o].is_pinned = TRUE,
                                        ![o].pinned_content = PinnedData(migrated_count)]
                /\ last_call' = [op |-> "migrate_legacy_conversations", raised |-> FALSE,
                                 created |-> Len(withOverview) - Len(archived)]
    /\ UNCHANGED <<auxVars, memVars, gateVars, drafts, published, campaigns, hasPage,
                   fbConnected, endpointCalls, turnVars, messages, workspace_pages,
                   setup_completed>>

MigrateInit ==
    /\ GateOff /\ MemOff /\ AuxOff /\ QuietRequest
    /\ messages = <<>> /\ last_call = NoCall
    /\ workspace_pages = [p \in {ThePage} |-> [is_included |-> TRUE]]
    /\ setup_completed = FALSE
    /\ \E n \in 0..MaxRowsBefore : conversations \in [1..n -> RowsBefore]

MigrateSpec == MigrateInit /\ [][MigrateLegacyConversations]_vars

(***************************************************************************)
(* C10.  For every draft in which primary_text exceeds 300, headline       *)
(* exceeds 40 or description exceeds 90 characters, validate_ad returns a  *)
(* non-empty issues list and can_publish = FALSE, with exactly one issue   *)
(* "<Field> exceeds limit (<length>/<limit> characters)" per exceeding     *)
(* field, in the order primary_text, headline, description; a field of     *)
(* exactly the limit length produces no such issue.                        *)
(***************************************************************************)
C10_Expected(d) ==
    LET p == Len(Get(d, "primary_text", ""))
        h == Len(Get(d, "headline", ""))
        e == Len(Get(d, "description", ""))
    IN (IF p >= 301 THEN <<"Primary Text exceeds limit (" \o ToString(p) \o "/300 characters)">>
        ELSE <<>>)
       \o (IF h >= 41 THEN <<"Headline exceeds limit (" \o ToString(h) \o "/40 characters)">>
           ELSE <<>>)
       \o (IF e >= 91 THEN <<"Description exceeds limit (" \o ToString(e) \o "/90 characters)">>
           ELSE <<>>)

C10_CharLimitIssues ==
    gpc = "validated" =>
        LET limitIssues == SelectSeq(validation.issues, LAMBDA m : Contains(m, "exceeds limit"))
        IN /\ limitIssues = C10_Expected(draft)
           /\ (C10_Expected(draft) # <<>> =>
                  /\ validation.issues # <<>>
                  /\ validation.can_publish = FALSE)

\* Scenario A of the spec, and a headline of exactly 40 characters beside it
C10_Witness ==
    /\ gpc = "validated"
    /\ Len(draft.primary_text) = 310
    /\ Len(draft.headline) = 40
    /\ "description" \notin DOMAIN draft
    /\ validation.issues = <<"Primary Text exceeds limit (310/300 characters)">>
    /\ validation.can_publish = FALSE

(***************************************************************************)
(* The chat turn: POST /chat (api/agent.py), AgentService.chat and the     *)
(* AgentExecutor it runs (services/agent_service.py), and the tools        *)
(* (agents/tools).  The texts the code streams are abbreviated; which text *)
(* is streamed, and that it leaves one character at a time, is kept.       *)
(***************************************************************************)
MaxIterations == 10

AnalyzingMsg == "**Analyzing your request...**"
ToolsHeader == "**Tools Used:**"
Separator == "---"
SimpleNote == "*Note: Running in simple chat mode (tools not available)*"
ConfigErrorMsg == "**Configuration Error**"
StoppedMsg == "Agent stopped"
FinalAnswer == "ok"

\* error_msg of _stream_agent_response for the exception e
ErrorText(e) == "!" \o e

ToolNames == {"get_account_stats", "publish_campaign"}

StatsReq == [tool |-> "get_account_stats", input |-> [time_range |-> "last_7_days"]]
PublishReq(d, c) == [tool |-> "publish_campaign", input |-> [draft_id |-> d, confirm |-> c]]
\* a publish_campaign request without the required draft_id
BadArgsReq == [tool |-> "publish_campaign", input |-> [confirm |-> TRUE]]
UnknownReq == [tool |-> "delete_campaign", input |-> [id |-> "c1"]]

\* the tool requests a model reply may carry: one request, or two in a listed order
RequestLists ==
    {<<StatsReq>>, <<PublishReq("d1", FALSE)>>, <<PublishReq("d1", TRUE)>>,
     <<PublishReq("d2", TRUE)>>, <<UnknownReq>>, <<BadArgsReq>>,
     <<PublishReq("d1", TRUE), StatsReq>>}

\* the draft ids whose publication the caller of the chat confirmed: the body of
\* POST /chat carries conversation_id and message, and no confirmation
confirmations == {}

\* args_schema validation of BaseTool.run: PublishCampaignInput requires draft_id
ArgsValid(r) ==
    r.tool = "publish_campaign" => "draft_id" \in DOMAIN r.input

\* json.dumps(tool_input)
ToolInputText(input) ==
    IF "draft_id" \in DOMAIN input
    THEN "{draft_id: " \o input.draft_id \o ", confirm: "
         \o (IF Get(input, "confirm", FALSE) THEN "true" ELSE "false") \o "}"
    ELSE IF "confirm" \in DOMAIN input THEN "{confirm: true}"
    ELSE "{}"

DraftRow(h) ==
    [status |-> "draft", primary_text |-> "valid text", headline |-> h,
     description |-> "", budget |-> 50]

\* AdDraft.to_preview_dict
ToPreviewDict(row) ==
    [primary_text |-> row.primary_text, headline |-> row.headline,
     description |-> row.description, budget |-> row.budget]

TurnInit ==
    /\ GateOff /\ ChatOff /\ MemOff /\ AuxOff
    /\ drafts \in {[d \in {"d1"} |-> DraftRow(Rep("x", h))] : h \in {40, 41}}
    /\ published = <<>> /\ campaigns = <<>> /\ messages = <<>> /\ endpointCalls = 0
    /\ hasPage \in BOOLEAN
    /\ fbConnected \in BOOLEAN
    /\ llm \in {"none", "ok", "badkey"}
    \* _init_agent builds no executor without an llm
    /\ hasExecutor \in (IF llm = "none" THEN {FALSE} ELSE BOOLEAN)
    /\ connected = TRUE
    /\ pc = "request"
    /\ iterations = 0 /\ pending = <<>> /\ requested = <<>> /\ steps = <<>>
    /\ out_text = "" /\ cursor = 0 /\ full_response = "" /\ stream = <<>>
    /\ modelCalls = 0 /\ toolRuns = 0 /\ createCalls = <<>> /\ lostAt = -1
    /\ sessionFailed = FALSE /\ lastReply = <<>>
    /\ freeRounds = MaxFreeRounds /\ faultBudget = MaxFaults

\* generate(): full_response += chunk; yield the event.  A client that went away is
\* noticed when the event is written, and the generator is closed there.
Emit(chunk, next) ==
    IF connected
    THEN /\ stream' = Append(stream, [content |-> chunk, done |-> FALSE])
         /\ full_response' = full_response \o chunk
         /\ pc' = next
    ELSE /\ pc' = "closed"
         /\ UNCHANGED <<stream, full_response>>

\* chat(): the conversation is created (the request names none), the user message is
\* stored, the AgentService is built, the stream starts.
\* chat() also hands workspace_id, page_id and product_id to AgentService, which its
\* __init__ does not declare; the turn is modelled for a service built from the
\* arguments __init__ declares.
ChatRequest ==
    /\ pc = "request"
    /\ conversations' = Append(conversations, Flush(ChatConversation(None, None)))
    /\ last_call' = [op |-> "chat", raised |-> FALSE, created |-> 1]
    /\ messages' = Append(messages, [role |-> "user", content |-> "hi"])
    /\ pc' = "chat"
    /\ UNCHANGED <<auxVars, memVars, gateVars, workspace_pages, setup_completed, drafts, published, campaigns, hasPage, fbConnected,
                   endpointCalls, llm, hasExecutor, connected, iterations,
                   pending, requested, steps, out_text, cursor, full_response, stream,
                   modelCalls, toolRuns, createCalls, lostAt, sessionFailed, lastReply,
                   freeRounds, faultBudget>>

\* AgentService.chat up to its first yield
ChatStart ==
    /\ pc = "chat"
    /\ IF llm = "none"
       THEN /\ out_text' = ConfigErrorMsg /\ cursor' = 1 /\ pc' = "chars"
            /\ UNCHANGED <<stream, full_response>>
       ELSE /\ Emit(IF hasExecutor THEN AnalyzingMsg ELSE SimpleNote,
                    IF hasExecutor THEN "loop" ELSE "simple")
            /\ UNCHANGED <<out_text, cursor>>
    /\ UNCHANGED <<auxVars, memVars, gateVars, chatVars, dataVars, llm, hasExecutor, connected,
                   iterations, pending, requested, steps, modelCalls, toolRuns,
                   createCalls, lostAt, sessionFailed, lastReply, freeRounds, faultBudget>>

\* a collaborator failure may be injected here
MayFail == faultBudget > 0 /\ freeRounds >= 0

\* the model has made the requests of lastReply in every round so far
SameEveryRound ==
    \A i \in 1..Len(requested) :
        requested[i] = lastReply[((i - 1) % Len(lastReply)) + 1]

\* a mutant of ShouldContinue: the cap is checked one round late
ShouldContinueLate(n) == n <= MaxIterations

\* AgentExecutor._should_continue: max_iterations = 10
ShouldContinue(n) == n < MaxIterations

\* the exception handler of _stream_agent_response: the error text is streamed
Abort(e) ==
    /\ out_text' = ErrorText(e) /\ cursor' = 1 /\ pc' = "chars"

\* one round of the agent loop: the model is invoked with the observations so far
ModelRound ==
    /\ pc = "loop" /\ pending = <<>>
    /\ IF ~ShouldContinue(iterations)
       THEN \* return_stopped_response
            /\ out_text' = StoppedMsg /\ pc' = "tools" /\ cursor' = 1
            /\ UNCHANGED <<modelCalls, pending, requested, lastReply, freeRounds, faultBudget>>
       ELSE /\ modelCalls' = modelCalls + 1
            /\ \/ \* the provider rejects the key
                  /\ llm = "badkey"
                  /\ Abort("auth")
                  /\ UNCHANGED <<pending, requested, lastReply, freeRounds, faultBudget>>
               \/ \* the call fails (network, quota)
                  /\ llm = "ok" /\ MayFail
                  /\ faultBudget' = faultBudget - 1
                  /\ Abort("net")
                  /\ UNCHANGED <<pending, requested, lastReply, freeRounds>>
               \/ \* AgentFinish: a final answer
                  /\ llm = "ok" /\ freeRounds >= 0
                  /\ out_text' = FinalAnswer /\ pc' = "tools" /\ cursor' = 1
                  /\ UNCHANGED <<pending, requested, lastReply, freeRounds, faultBudget>>
               \/ \* tool requests
                  /\ llm = "ok"
                  /\ \E reply \in RequestLists :
                        /\ \/ freeRounds > 0 /\ freeRounds' = freeRounds - 1
                           \/ freeRounds <= 0 /\ reply = lastReply /\ SameEveryRound
                              /\ freeRounds' = -1
                        /\ pending' = reply
                        /\ requested' = requested \o reply
                        /\ lastReply' = reply
                  /\ UNCHANGED <<out_text, cursor, pc, faultBudget>>
    /\ UNCHANGED <<auxVars, memVars, gateVars, chatVars, dataVars, llm, hasExecutor, connected,
                   iterations, steps, full_response, stream, toolRuns, createCalls,
                   lostAt, sessionFailed>>

\* what every tool run of the loop does with its observation (_perform_agent_action,
\* then intermediate_steps.extend and iterations += 1 when the round is through)
Observe(obs) ==
    /\ steps' = Append(steps, [action |-> Head(pending), observation |-> obs])
    /\ pending' = Tail(pending)
    /\ iterations' = IF Tail(pending) = <<>> THEN iterations + 1 ELSE iterations
    /\ toolRuns' = toolRuns + 1
    /\ UNCHANGED <<out_text, cursor, pc>>

\* a tool run that raises: the exception leaves AgentExecutor.invoke
Raise(e) ==
    /\ toolRuns' = toolRuns + 1
    /\ Abort(e)
    /\ UNCHANGED <<steps, pending, iterations>>

\* the name is in no tool of the executor: InvalidTool answers in its place
RunInvalidTool ==
    /\ pc = "loop" /\ pending # <<>>
    /\ Head(pending).tool \notin ToolNames
    /\ Observe([error |-> Head(pending).tool \o " is not a valid tool"])
    /\ UNCHANGED <<auxVars, memVars, gateVars, chatVars, dataVars, llm, hasExecutor, connected,
                   requested, full_response, stream, modelCalls, createCalls, lostAt,
                   sessionFailed, lastReply, freeRounds, faultBudget>>

\* the arguments do not fit args_schema: BaseTool.run raises ValidationError
\* (no tool sets handle_validation_error)
RunBadArgs ==
    /\ pc = "loop" /\ pending # <<>>
    /\ Head(pending).tool \in ToolNames
    /\ ~ArgsValid(Head(pending))
    /\ Raise("val")
    /\ UNCHANGED <<auxVars, memVars, gateVars, chatVars, dataVars, llm, hasExecutor, connected,
                   requested, full_response, stream, modelCalls, createCalls, lostAt,
                   sessionFailed, lastReply, freeRounds, faultBudget>>

\* GetAccountStatsTool._run
RunStats ==
    /\ pc = "loop" /\ pending # <<>>
    /\ Head(pending).tool = "get_account_stats"
    /\ \/ /\ ~fbConnected
          /\ Observe([spend |-> "1500.0"])
          /\ UNCHANGED faultBudget
       \/ /\ fbConnected
          /\ Observe([spend |-> "live", is_real_data |-> TRUE])
          /\ UNCHANGED faultBudget
       \/ \* FacebookService.get_account_stats falls back to its mock numbers
          /\ fbConnected /\ MayFail
          /\ faultBudget' = faultBudget - 1
          /\ Observe([spend |-> "1500.0", is_real_data |-> FALSE])
    /\ UNCHANGED <<auxVars, memVars, gateVars, chatVars, dataVars, llm, hasExecutor, connected,
                   requested, full_response, stream, modelCalls, createCalls, lostAt,
                   sessionFailed, lastReply, freeRounds>>

RequiresConfirmation ==
    [requires_confirmation |-> TRUE,
     message |-> "Publishing requires user confirmation. Please confirm to proceed."]

\* a mutant of ConfirmGate: the gate lets every request through
ConfirmGateOpen(input) == TRUE

\* PublishCampaignTool._run: "if not confirm" reads the argument the model filled in
ConfirmGate(input) == Get(input, "confirm", FALSE)

\* PublishCampaignTool._run without confirm
RunPublishUnconfirmed ==
    /\ pc = "loop" /\ pending # <<>>
    /\ Head(pending).tool = "publish_campaign" /\ ArgsValid(Head(pending))
    /\ ~ConfirmGate(Head(pending).input)
    /\ Observe(RequiresConfirmation)
    /\ UNCHANGED <<auxVars, memVars, gateVars, chatVars, dataVars, llm, hasExecutor, connected,
                   requested, full_response, stream, modelCalls, createCalls, lostAt,
                   sessionFailed, lastReply, freeRounds, faultBudget>>

\* PublishCampaignTool._run: the draft of the user is found and a primary page exists
PublishReady(d) == d \in DOMAIN drafts /\ hasPage

\* the dicts ExecutionAgent.create_campaign hands to FacebookService.create_campaign
AgentData ==
    [campaign_data |-> [name |-> "New Campaign", status |-> "PAUSED"],
     adset_data |-> [name |-> "New Ad Set", status |-> "PAUSED"],
     ad_data |-> [name |-> "New Ad"]]

\* the dicts publish_draft hands to FacebookService.create_campaign
EndpointData ==
    [campaign_data |-> [name |-> "campaign", status |-> "PAUSED"],
     adset_data |-> [name |-> "ad set"],
     ad_data |-> [name |-> "ad"]]

\* a mutant of StatusWritten: the status of the dict handed in, the platform's own
\* choice where the dict has none
StatusWrittenFromData(object_data) == Get(object_data, "status", "ACTIVE")

\* FacebookService.create_campaign: the status parameter of each create call is
\* Status.paused, whatever the dict handed in says
StatusWritten(object_data) == "PAUSED"

\* the objects one create_campaign call leaves on the platform: the campaign, and the
\* ad set and the ad unless the call failed after the campaign was made
NewCampaign(d, whole, data) ==
    [draft |-> d, status |-> StatusWritten(data.campaign_data),
     adset_status |-> IF whole THEN StatusWritten(data.adset_data) ELSE None,
     ad_status |-> IF whole THEN StatusWritten(data.ad_data) ELSE None,
     complete |-> whole]

NewPublished(d) == [ad_draft_id |-> d, status |-> "active"]

\* PublishCampaignTool._run with confirm
RunPublish ==
    /\ pc = "loop" /\ pending # <<>>
    /\ Head(pending).tool = "publish_campaign" /\ ArgsValid(Head(pending))
    /\ ConfirmGate(Head(pending).input)
    /\ LET d == Head(pending).input.draft_id IN
       \/ \* the session is unusable after a failed commit: the query raises
          /\ sessionFailed
          /\ Raise("db")
          /\ UNCHANGED <<drafts, published, campaigns, createCalls, sessionFailed,
                         faultBudget>>
       \/ /\ ~sessionFailed /\ d \notin DOMAIN drafts
          /\ Observe([error |-> "Draft not found"])
          /\ UNCHANGED <<drafts, published, campaigns, createCalls, sessionFailed,
                         faultBudget>>
       \/ /\ ~sessionFailed /\ d \in DOMAIN drafts /\ ~PublishReady(d)
          /\ Observe([error |-> "No Facebook page selected"])
          /\ UNCHANGED <<drafts, published, campaigns, createCalls, sessionFailed,
                         faultBudget>>
       \/ \* create_campaign succeeds (on the platform, or as _mock_create_campaign),
          \* the record is saved
          /\ ~sessionFailed /\ PublishReady(d)
          /\ createCalls' = Append(createCalls, d)
          /\ campaigns' = IF fbConnected THEN Append(campaigns, NewCampaign(d, TRUE, AgentData))
                          ELSE campaigns
          /\ published' = Append(published, NewPublished(d))
          /\ drafts' = [drafts EXCEPT ![d].status = "published"]
          /\ Observe([success |-> TRUE, message |-> "Campaign published successfully!"])
          /\ UNCHANGED <<sessionFailed, faultBudget>>
       \/ \* create_campaign succeeds, the commit fails
          /\ ~sessionFailed /\ PublishReady(d) /\ MayFail
          /\ faultBudget' = faultBudget - 1
          /\ createCalls' = Append(createCalls, d)
          /\ campaigns' = IF fbConnected THEN Append(campaigns, NewCampaign(d, TRUE, AgentData))
                          ELSE campaigns
          /\ sessionFailed' = TRUE
          /\ Observe([error |-> "Failed to save"])
          /\ UNCHANGED <<drafts, published>>
       \/ \* the platform fails, before or after the campaign object was made
          /\ ~sessionFailed /\ PublishReady(d) /\ fbConnected /\ MayFail
          /\ faultBudget' = faultBudget - 1
          /\ createCalls' = Append(createCalls, d)
          /\ \E partial \in BOOLEAN :
                campaigns' = IF partial THEN Append(campaigns, NewCampaign(d, FALSE, AgentData))
                             ELSE campaigns
          /\ Observe([success |-> FALSE, error |-> "platform"])
          /\ UNCHANGED <<drafts, published, sessionFailed>>
    /\ UNCHANGED <<auxVars, memVars, gateVars, chatVars, hasPage, fbConnected, messages, endpointCalls, llm,
                   hasExecutor, connected, requested, full_response,
                   stream, modelCalls, lostAt, lastReply, freeRounds>>

turnFrame == <<auxVars, memVars, gateVars, chatVars, dataVars, llm, hasExecutor, connected, iterations,
               pending, requested, steps, modelCalls, toolRuns, createCalls, lostAt,
               sessionFailed, lastReply, freeRounds, faultBudget>>

\* the chunks listing the executed steps: per step the bullet with the tool's name, then
\* json.dumps(tool_input)
RECURSIVE ToolLines(_)
ToolLines(q) ==
    IF q = <<>> THEN <<>>
    ELSE <<"- " \o Head(q).action.tool \o ": ", ToolInputText(Head(q).action.input)>>
         \o ToolLines(Tail(q))

RECURSIVE Concat(_)
Concat(q) == IF q = <<>> THEN "" ELSE Head(q) \o Concat(Tail(q))

\* _stream_agent_response after invoke returned: "if intermediate_steps:" the header, the
\* lines of the steps and the separator are yielded, taken together as one step
ListTools ==
    /\ pc = "tools"
    /\ cursor' = 1
    /\ IF steps = <<>>
       THEN pc' = "chars" /\ UNCHANGED <<stream, full_response>>
       ELSE IF connected
       THEN LET chunks == <<ToolsHeader>> \o ToolLines(steps) \o <<Separator>> IN
            /\ stream' = stream \o [i \in 1..Len(chunks) |->
                                        [content |-> chunks[i], done |-> FALSE]]
            /\ full_response' = full_response \o Concat(chunks)
            /\ pc' = "chars"
       ELSE /\ pc' = "closed"
            /\ UNCHANGED <<stream, full_response>>
    /\ UNCHANGED <<turnFrame, out_text>>

\* "for char in ...: yield char" over the output, the error text or the
\* configuration-error text
StreamChar ==
    /\ pc = "chars"
    /\ Emit(SubSeq(out_text, cursor, cursor), IF cursor < Len(out_text) THEN "chars" ELSE "store")
    /\ cursor' = cursor + 1
    /\ UNCHANGED <<turnFrame, out_text>>

\* the single chunk _stream_simple_chat yields for the exception e
SimpleErrorText(e) == "**Error**: " \o e

\* _stream_simple_chat: llm.stream(messages), one yield per chunk
SimpleChat ==
    /\ pc = "simple"
    /\ \/ \* the stream is opened
          /\ cursor = 0 /\ llm = "ok"
          /\ modelCalls' = modelCalls + 1
          /\ out_text' = FinalAnswer /\ cursor' = 1
          /\ UNCHANGED <<pc, stream, full_response, faultBudget>>
       \/ \* the provider rejects the key
          /\ cursor = 0 /\ llm = "badkey"
          /\ modelCalls' = modelCalls + 1
          /\ Emit(SimpleErrorText("auth"), "store")
          /\ UNCHANGED <<out_text, cursor, faultBudget>>
       \/ \* the next chunk
          /\ cursor >= 1
          /\ Emit(SubSeq(out_text, cursor, cursor),
                  IF cursor < Len(out_text) THEN "simple" ELSE "store")
          /\ cursor' = cursor + 1
          /\ UNCHANGED <<out_text, modelCalls, faultBudget>>
       \/ \* the stream breaks
          /\ cursor >= 1 /\ faultBudget > 0
          /\ faultBudget' = faultBudget - 1
          /\ Emit(SimpleErrorText("net"), "store")
          /\ UNCHANGED <<out_text, cursor, modelCalls>>
    /\ UNCHANGED <<auxVars, memVars, gateVars, chatVars, dataVars, llm, hasExecutor, connected,
                   iterations, pending, requested, steps, toolRuns, createCalls, lostAt,
                   sessionFailed, lastReply, freeRounds>>

\* generate(): the assistant message is stored; a failing commit is caught by
\* "except Exception"
StoreAssistant ==
    /\ pc = "store"
    /\ \/ /\ ~sessionFailed
          /\ messages' = Append(messages, [role |-> "assistant", content |-> full_response])
          /\ pc' = "done_event"
          /\ UNCHANGED <<faultBudget, sessionFailed>>
       \/ /\ ~sessionFailed /\ faultBudget > 0
          /\ faultBudget' = faultBudget - 1
          /\ sessionFailed' = TRUE
          /\ pc' = "error_event"
          /\ UNCHANGED messages
       \/ /\ sessionFailed
          /\ pc' = "error_event"
          /\ UNCHANGED <<messages, faultBudget, sessionFailed>>
    /\ UNCHANGED <<auxVars, memVars, gateVars, chatVars, drafts, published, campaigns, hasPage, fbConnected,
                   endpointCalls, llm, hasExecutor, connected, iterations,
                   pending, requested, steps, out_text, cursor, full_response, stream,
                   modelCalls, toolRuns, createCalls, lostAt, lastReply, freeRounds>>

\* a mutant of DoneEvent: the last event does not say done
DoneEventOpen == [content |-> "", done |-> FALSE]

\* the event generate() yields after the assistant message is stored
DoneEvent == [content |-> "", done |-> TRUE]

\* the event of generate()'s except branch
ErrorEvent == [error |-> "commit failed", done |-> TRUE]

\* the last yield of generate(): done, or the error of the except branch
EmitTerminal ==
    /\ pc \in {"done_event", "error_event"}
    /\ IF connected
       THEN /\ stream' = Append(stream, IF pc = "done_event" THEN DoneEvent ELSE ErrorEvent)
            /\ pc' = "end"
       ELSE /\ pc' = "closed"
            /\ UNCHANGED stream
    /\ UNCHANGED <<turnFrame, out_text, cursor, full_response>>

\* the client closes the connection while the response is streaming
Disconnect ==
    /\ connected
    /\ pc \notin {"off", "request", "end", "closed"}
    /\ pc = "loop" => freeRounds >= 0
    /\ connected' = FALSE
    /\ lostAt' = iterations
    /\ UNCHANGED <<auxVars, memVars, gateVars, chatVars, dataVars, llm, hasExecutor, pc, iterations,
                   pending, requested, steps, out_text, cursor, full_response, stream,
                   modelCalls, toolRuns, createCalls, sessionFailed, lastReply, freeRounds,
                   faultBudget>>

\* publish_draft (api/drafts.py), a request of its own
PublishDraft ==
    /\ pc = "off"
    /\ endpointCalls < MaxEndpointCalls
    /\ endpointCalls' = endpointCalls + 1
    /\ \E d \in {"d1", "d2"} :
       \/ \* 404, 400
          /\ ~(d \in DOMAIN drafts /\ fbConnected /\ hasPage)
          /\ UNCHANGED <<drafts, published, campaigns, faultBudget>>
       \/ \* the campaign is created and the record committed
          /\ d \in DOMAIN drafts /\ fbConnected /\ hasPage
          /\ campaigns' = Append(campaigns, NewCampaign(d, TRUE, EndpointData))
          /\ published' = Append(published, NewPublished(d))
          /\ drafts' = [drafts EXCEPT ![d].status = "published"]
          /\ UNCHANGED faultBudget
       \/ \* the commit fails: rollback, 500
          /\ d \in DOMAIN drafts /\ fbConnected /\ hasPage /\ faultBudget > 0
          /\ faultBudget' = faultBudget - 1
          /\ campaigns' = Append(campaigns, NewCampaign(d, TRUE, EndpointData))
          /\ UNCHANGED <<drafts, published>>
       \/ \* the platform fails: result['campaign_id'] raises KeyError, rollback, 500
          /\ d \in DOMAIN drafts /\ fbConnected /\ hasPage /\ faultBudget > 0
          /\ faultBudget' = faultBudget - 1
          /\ \E partial \in BOOLEAN :
                campaigns' = IF partial THEN Append(campaigns, NewCampaign(d, FALSE, EndpointData))
                             ELSE campaigns
          /\ UNCHANGED <<drafts, published>>
    /\ UNCHANGED <<auxVars, memVars, gateVars, chatVars, hasPage, fbConnected, messages, turnVars>>

RunTool == RunInvalidTool \/ RunBadArgs \/ RunStats \/ RunPublishUnconfirmed \/ RunPublish

TurnStep ==
    \/ ChatRequest \/ ChatStart \/ ModelRound \/ RunTool
    \/ ListTools \/ StreamChar
    \/ SimpleChat \/ StoreAssistant \/ EmitTerminal

TurnNext == TurnStep \/ Disconnect

TurnSpec == TurnInit /\ [][TurnNext]_vars

\* the publish endpoint alone: no chat turn is in flight
PublishInit ==
    /\ GateOff /\ ChatOff /\ MemOff /\ AuxOff
    /\ drafts \in {[d \in {"d1"} |-> DraftRow(Rep("x", h))] : h \in {40, 41}}
    /\ published = <<>> /\ campaigns = <<>> /\ messages = <<>> /\ endpointCalls = 0
    /\ hasPage \in BOOLEAN
    /\ fbConnected \in BOOLEAN
    /\ llm = "none" /\ hasExecutor = FALSE /\ connected = TRUE
    /\ pc = "off" /\ iterations = 0 /\ pending = <<>> /\ requested = <<>>
    /\ steps = <<>> /\ out_text = "" /\ cursor = 0 /\ full_response = ""
    /\ stream = <<>> /\ modelCalls = 0 /\ toolRuns = 0 /\ createCalls = <<>>
    /\ lostAt = -1 /\ sessionFailed = FALSE /\ lastReply = <<>> /\ freeRounds = 0
    /\ faultBudget = MaxFaults

PublishSpec == PublishInit /\ [][PublishDraft]_vars

\* both publish paths: a chat turn, or requests to the publish endpoint
PlatformInit == TurnInit \/ PublishInit

PlatformNext == TurnNext \/ PublishDraft

PlatformSpec == PlatformInit /\ [][PlatformNext]_vars

\* schemas/draft.py DraftStatus
DraftStatus == {"draft", "approved", "published", "rejected"}

\* the bodies tried for PUT /drafts/<id>: the fields that are set
UpdateBodies ==
    {[status |-> st] : st \in DraftStatus \cup {"archived"}}
        \cup {[headline |-> "New headline"], [budget |-> 75]}

\* DraftUpdate(**data): the body passes the schema
IsDraftUpdate(data) == ("status" \in DOMAIN data) => data.status \in DraftStatus

\* for field, value in update_data.model_dump(exclude_unset=True).items(): setattr
SetFields(row, data) ==
    [f \in DOMAIN row |-> IF f \in DOMAIN data THEN data[f] ELSE row[f]]

\* update_draft (PUT /drafts/<id>)
UpdateDraft ==
    /\ pc = "off"
    /\ endpointCalls < MaxEndpointCalls
    /\ endpointCalls' = endpointCalls + 1
    /\ \E d \in {"d1", "d2"}, data \in UpdateBodies :
       \/ \* 404, or the schema rejects the body
          /\ ~(d \in DOMAIN drafts /\ IsDraftUpdate(data))
          /\ UNCHANGED drafts
       \/ /\ d \in DOMAIN drafts /\ IsDraftUpdate(data)
          /\ drafts' = [drafts EXCEPT ![d] = SetFields(@, data)]
    /\ UNCHANGED <<auxVars, memVars, gateVars, chatVars, published, campaigns, faultBudget,
                   hasPage, fbConnected, messages, turnVars>>

\* the draft endpoints: update and publish
DraftNext == PublishDraft \/ UpdateDraft

DraftSpec == PublishInit /\ [][DraftNext]_vars

\* every call the turn makes returns or raises, and the server keeps pulling the stream
FairTurnSpec == TurnSpec /\ WF_vars(TurnStep)

(***************************************************************************)
(* Helpers of the properties below.                                        *)
(***************************************************************************)
Last(q) == q[Len(q)]

IsPrefix(a, b) == Len(a) <= Len(b) /\ SubSeq(b, 1, Len(a)) = a

\* a tool is being run in this step
ToolRan == toolRuns' = toolRuns + 1

\* the request at the head of the round is a publish_campaign call with valid arguments
AtPublish ==
    /\ pc = "loop" /\ pending # <<>>
    /\ Head(pending).tool = "publish_campaign"
    /\ "draft_id" \in DOMAIN Head(pending).input

\* the head request carries confirm = true
Confirmed ==
    "confirm" \in DOMAIN Head(pending).input /\ Head(pending).input.confirm

\* an earlier call of the turn for the draft d came back with requires_confirmation
AskedBefore(d) ==
    \E i \in 1..Len(steps) :
        /\ steps[i].action = PublishReq(d, FALSE)
        /\ steps[i].observation = RequiresConfirmation

(***************************************************************************)
(* C1.  ExecutionAgent.create_campaign is reached for a draft only if the  *)
(* caller of the chat (not the model) confirmed the publication of that    *)
(* draft: every create_campaign call of the turn is for a draft in the     *)
(* caller's confirmations.                                                 *)
(***************************************************************************)
C1_OnlyCallerConfirmed ==
    \A i \in 1..Len(createCalls) : createCalls[i] \in confirmations

(***************************************************************************)
(* C2.  A publish_campaign call without confirm returns                    *)
(* requires_confirmation = true and changes nothing (no campaign on the    *)
(* platform, no PublishedCampaign row, the draft's status unchanged, no    *)
(* create_campaign call); a second call for the same draft with confirm    *)
(* reaches create_campaign, provided the draft is a draft of the user, a   *)
(* primary page is selected and the db session is usable.                  *)
(***************************************************************************)
C2_Step ==
    /\ (AtPublish /\ ~Confirmed /\ ToolRan) =>
          /\ Len(steps') = Len(steps) + 1
          /\ Last(steps').action = Head(pending)
          /\ Last(steps').observation = RequiresConfirmation
          /\ campaigns' = campaigns
          /\ published' = published
          /\ drafts' = drafts
          /\ createCalls' = createCalls
    /\ (/\ AtPublish /\ Confirmed /\ ToolRan
        /\ AskedBefore(Head(pending).input.draft_id)
        /\ Head(pending).input.draft_id \in DOMAIN drafts
        /\ hasPage /\ ~sessionFailed) =>
          createCalls' = Append(createCalls, Head(pending).input.draft_id)

C2_SecondStep ==
    (AtPublish /\ Confirmed /\ ToolRan /\ AskedBefore(Head(pending).input.draft_id)) =>
        createCalls' = Append(createCalls, Head(pending).input.draft_id)

C3_IssuesBlockPublish ==
    \A d \in DOMAIN drafts :
        ValidateAd(ToPreviewDict(drafts[d]), default_budget).issues # <<>> =>
            /\ drafts[d].status # "published"
            /\ \A i \in 1..Len(createCalls) : createCalls[i] # d
            /\ \A i \in 1..Len(campaigns) : campaigns[i].draft # d

(***************************************************************************)
(* C4.  The tool-calling loop ends within 10 model rounds for every model  *)
(* behaviour: the model is invoked at most 10 times, every step of the     *)
(* loop takes it closer to its end (the rounds left and the requests left  *)
(* in the round decrease), and when the cap is reached the turn goes on    *)
(* with the stopped message as its output.                                 *)
(***************************************************************************)
LoopMeasure ==
    3 * (10 - iterations) + (IF pending = <<>> THEN 3 ELSE Len(pending))

C4_LoopStep ==
    (pc = "loop" /\ pc' = "loop" /\ connected' = connected) => LoopMeasure' < LoopMeasure

C4_Bounded ==
    /\ modelCalls <= 10
    /\ iterations <= 10
    /\ LoopMeasure >= 0
    /\ (iterations = 10 /\ pc # "loop") => out_text = StoppedMsg

C4_IterationCap == []C4_Bounded /\ [][C4_LoopStep]_vars

\* a model that asks for the same tool in every round: ten rounds, then the stopped
\* message and the done event
C4_Witness ==
    /\ pc = "end"
    /\ modelCalls = 10
    /\ Len(steps) = 10
    /\ \A i \in 1..Len(steps) : steps[i].action = StatsReq
    /\ out_text = StoppedMsg
    /\ Last(stream) = DoneEvent

(***************************************************************************)
(* C5.  Every chat stream ends with exactly one terminal event (done =     *)
(* true), which is its last event, whatever fails (the model call, a tool  *)
(* call, the storage write); a stream nobody reads any more is closed.     *)
(* No stream stays open for ever.                                          *)
(***************************************************************************)
Terminals == SelectSeq(stream, LAMBDA e : e.done)

C5_Terminal ==
    /\ IF pc = "end"
       THEN Len(Terminals) = 1 /\ Last(stream).done
       ELSE Terminals = <<>>
    /\ pc = "closed" => ~connected

C6_AuthFailureConfigError ==
    llm \in {"none", "badkey"} =>
        /\ IsPrefix(full_response, ConfigErrorMsg)
        /\ toolRuns = 0
        /\ (pc = "end" => full_response = ConfigErrorMsg)

(***************************************************************************)
(* C7.  A tool request that names an unknown tool or carries arguments     *)
(* that do not fit the tool's schema does not abort the turn: once the     *)
(* loop is left, every such request has its step, whose observation is an  *)
(* error fed back to the model.                                            *)
(***************************************************************************)
BadRequest(r) == r.tool \notin ToolNames \/ ~ArgsValid(r)

C7_BadRequestObserved ==
    pc \notin {"request", "chat", "loop"} =>
        \A i \in 1..Len(requested) :
            BadRequest(requested[i]) =>
                /\ i <= Len(steps)
                /\ steps[i].action = requested[i]
                /\ "error" \in DOMAIN steps[i].observation

(***************************************************************************)
(* C8.  The output of a finished turn lists the tool invocations in the    *)
(* order the model requested them, which is the order they ran in, then    *)
(* the one final answer; no tool event follows the first character of the  *)
(* answer.                                                                 *)
(***************************************************************************)
IsToolEvent(e) ==
    /\ "content" \in DOMAIN e
    /\ Len(e.content) > 2
    /\ SubSeq(e.content, 1, 2) = "- "

ToolEvents == SelectSeq(stream, IsToolEvent)

\* the events that carry the output, one character each, right before the terminal event
AnswerStart == Len(stream) - Len(out_text)

C8_ToolsThenAnswer ==
    (pc = "end" /\ hasExecutor) =>
        \* the tools ran in the order the model requested them
        /\ Len(steps) <= Len(requested)
        /\ \A i \in 1..Len(steps) : steps[i].action = requested[i]
        \* the output lists them in that order
        /\ Len(ToolEvents) = Len(steps)
        /\ \A i \in 1..Len(ToolEvents) :
              ToolEvents[i].content = "- " \o steps[i].action.tool \o ": "
        \* then the one answer, and no tool event once it has started
        /\ AnswerStart >= 1
        /\ \A k \in 1..Len(out_text) :
              stream[AnswerStart + k - 1].content = SubSeq(out_text, k, k)
        /\ \A i \in 1..Len(stream) : IsToolEvent(stream[i]) => i < AnswerStart

(***************************************************************************)
(* C9.  Once the client is gone, the round in progress may finish, and     *)
(* after that loop-iteration boundary the executor makes no further model  *)
(* call and no further tool call.                                          *)
(***************************************************************************)
C9_NoCallsAfterDisconnect ==
    lostAt >= 0 =>
        /\ iterations <= lostAt + 1
        /\ (iterations = lostAt + 1 => pending = <<>>)


(***************************************************************************)
(* C11.  In every result of validate_ad and of pre_publish_check,          *)
(* can_publish is true exactly when the issues list is empty and           *)
(* requires_confirmation is true exactly when the warnings list is not     *)
(* empty; so warnings do not bear on can_publish nor issues on             *)
(* requires_confirmation.                                                  *)
(***************************************************************************)
FlagsFollowLists(result) ==
    /\ result.can_publish = (result.issues = <<>>)
    /\ result.requires_confirmation = (result.warnings # <<>>)

C11_FlagsFollowLists ==
    /\ gpc = "validated" => FlagsFollowLists(validation)
    /\ check # NoCheck => FlagsFollowLists(check)

\* validate_ad finds an issue and no warning; pre_publish_check adds the media warning
C11_Witness ==
    /\ gpc = "validated"
    /\ validation.issues # <<>> /\ validation.warnings = <<>>
    /\ ~validation.can_publish /\ ~validation.requires_confirmation
    /\ check # NoCheck
    /\ check.issues # <<>> /\ check.warnings # <<>>
    /\ ~check.can_publish /\ check.requires_confirmation


(***************************************************************************)
(* C12.  The budget check yields at most one warning per draft, by the     *)
(* first matching tier: budget <= 0 (or no budget) the no-budget warning,  *)
(* budget > 5 x default the significantly-higher warning, budget > 2 x     *)
(* default (and <= 5 x) the milder warning, a budget in (0, 2 x default]   *)
(* none.  With default 50, budget 500 (text "valid text", headline "ok")   *)
(* gives the significantly-higher warning, no issue, can_publish = TRUE    *)
(* and requires_confirmation = TRUE.                                       *)
(***************************************************************************)
IsBudgetWarning(m) ==
    Contains(m, "Budget (") \/ m = "No budget specified - using default"

BudgetWarnings(result) == SelectSeq(result.warnings, IsBudgetWarning)

\* the tier of a budget, from the bounds of the tiers
BudgetTier(b, default) ==
    CASE b < 1 -> "none given"
      [] b >= 1 /\ b <= 2 * default -> "usual"
      [] b >= 2 * default + 1 /\ b <= 5 * default -> "higher"
      [] b >= 5 * default + 1 -> "much higher"

C12_BudgetTiers ==
    gpc = "validated" =>
        LET b == IF "budget" \in DOMAIN draft THEN draft.budget ELSE 0
            tier == BudgetTier(b, default_budget)
            w == BudgetWarnings(validation)
        IN /\ Len(w) <= 1
           /\ tier = "none given" => w = <<"No budget specified - using default">>
           /\ tier = "usual" => w = <<>>
           /\ tier = "higher" =>
                 /\ Len(w) = 1
                 /\ Contains(w[1], "is higher than your typical daily budget")
           /\ tier = "much higher" =>
                 /\ Len(w) = 1
                 /\ Contains(w[1], "is significantly higher than your usual")
           /\ (/\ b = 500 /\ default_budget = 50
               /\ draft.primary_text = "valid text" /\ draft.headline = "ok") =>
                 /\ validation.issues = <<>>
                 /\ validation.can_publish
                 /\ validation.requires_confirmation

\* Scenario B of the spec
C12_Witness ==
    /\ gpc = "validated"
    /\ default_budget = 50
    /\ DOMAIN draft = {"primary_text", "headline", "budget"}
    /\ draft.primary_text = "valid text" /\ draft.headline = "ok" /\ draft.budget = 500
    /\ BudgetWarnings(validation)
         = <<"Budget ($500) is significantly higher than your usual ($50). Are you sure?">>
    /\ validation.issues = <<>>
    /\ validation.can_publish /\ validation.requires_confirmation


(***************************************************************************)
(* C13.  validate_ad adds a warning whenever the combined text of the      *)
(* draft holds more than 3 exclamation marks, and a warning whenever it    *)
(* holds more than 3 all-caps words longer than 2 characters; with four    *)
(* such words requires_confirmation is TRUE.                               *)
(***************************************************************************)
\* the text of the draft as it was written: the three fields joined by blanks
CombinedText(d) ==
    Get(d, "primary_text", "") \o " " \o Get(d, "headline", "") \o " "
        \o Get(d, "description", "")

CapsWordsOf(text) ==
    LET words == Split(text)
    IN {i \in 1..Len(words) : IsUpper(words[i]) /\ Len(words[i]) > 2}

HasWarning(result, w) == \E i \in 1..Len(result.warnings) : result.warnings[i] = w

C13_PunctuationAndCaps ==
    gpc = "validated" =>
        /\ Count(CombinedText(draft), "!") > 3 =>
              HasWarning(validation, "Excessive exclamation marks may reduce ad quality")
        /\ Cardinality(CapsWordsOf(CombinedText(draft))) > 3 =>
              /\ HasWarning(validation, "Excessive capitalization may violate ad policies")
              /\ validation.requires_confirmation


(***************************************************************************)
(* C14.  Each term of the prohibited list that occurs in the combined text *)
(* of the draft, in whatever case, yields an issue, so can_publish is      *)
(* FALSE; each term of the sensitive list that occurs yields a warning and *)
(* no issue: a draft that matches no prohibited term and exceeds no length *)
(* limit has an empty issues list.                                         *)
(***************************************************************************)
\* two characters that are the same letter in either case, or the same character
SmallOf ==
    [c \in {UpperLetters[k] : k \in 1..26} |->
        LowerLetters[CHOOSE k \in 1..26 : UpperLetters[k] = c]]

Folded(c) == IF c \in DOMAIN SmallOf THEN SmallOf[c] ELSE c

SameIgnoringCase(a, b) == a = b \/ Folded(a) = Folded(b)

\* term occurs in text as a substring, the case of letters set aside
OccursIn(text, term) ==
    \E i \in 0..(Len(text) - Len(term)) :
        \A k \in 1..Len(term) :
            SameIgnoringCase(SubSeq(text, i + k, i + k), SubSeq(term, k, k))

HasIssue(result, m) == \E i \in 1..Len(result.issues) : result.issues[i] = m

OverSomeLimit(d) ==
    \/ Len(Get(d, "primary_text", "")) > 300
    \/ Len(Get(d, "headline", "")) > 40
    \/ Len(Get(d, "description", "")) > 90

C14_TermScans ==
    gpc = "validated" =>
        LET text == CombinedText(draft) IN
        /\ \A k \in 1..Len(PROHIBITED_WORDS) :
              OccursIn(text, PROHIBITED_WORDS[k]) =>
                  /\ HasIssue(validation, "Potential policy violation: '"
                         \o PROHIBITED_WORDS[k] \o "' may not be allowed in ads")
                  /\ ~validation.can_publish
        /\ \A k \in 1..Len(SENSITIVE_WORDS) :
              OccursIn(text, SENSITIVE_WORDS[k]) =>
                  /\ HasWarning(validation, "Sensitive content detected: '"
                         \o SENSITIVE_WORDS[k] \o "' may require additional review")
                  /\ \A i \in 1..Len(validation.issues) :
                        ~Contains(validation.issues[i], "Sensitive")
        /\ (/\ \A k \in 1..Len(PROHIBITED_WORDS) : ~OccursIn(text, PROHIBITED_WORDS[k])
            /\ ~OverSomeLimit(draft)) =>
              validation.issues = <<>>

\* prohibited terms written with a capital and a sensitive term in one text
C14_Witness ==
    /\ gpc = "validated"
    /\ draft.primary_text = "Guaranteed diet cure" /\ draft.headline = "ok"
    /\ validation.issues
         = <<"Potential policy violation: 'cure' may not be allowed in ads",
             "Potential policy violation: 'guaranteed' may not be allowed in ads">>
    /\ HasWarning(validation,
                  "Sensitive content detected: 'diet' may require additional review")
    /\ ~validation.can_publish


(***************************************************************************)
(* C15.  validate_ad is a pure function of the draft and the default       *)
(* budget: a call leaves the draft and the default budget as they were,    *)
(* and a second call on the same draft returns the result of the first.    *)
(***************************************************************************)
C15_Step ==
    (calls' = calls + 1) =>
        /\ draft' = draft
        /\ default_budget' = default_budget
        /\ validation' = ValidateAd(draft', default_budget')
        /\ (calls >= 1 => validation' = validation)

StatesAreValid ==
    \A i \in 1..Len(conversations) :
        conversations[i].state \in
            {"idle", "discovery", "ideation", "drafting", "review", "ready_to_publish",
             "published"}

C16_Step ==
    (last_call'.op = "set_state" /\ last_call'.raised) => conversations' = conversations

C16_SetStateValidates == []StatesAreValid /\ [][C16_Step]_vars

\* a call with an invalid name has just failed on a conversation that was in review
C16_Witness ==
    /\ last_call = [op |-> "set_state", raised |-> TRUE, created |-> 0]
    /\ conversations[1].state = "review"

(***************************************************************************)
(* C17.  When publish_campaign has succeeded in a turn, the state of the   *)
(* conversation is published once the turn has ended, and a conversation   *)
(* is in state published only if a publish succeeded.                      *)
(***************************************************************************)
PublishSucceeded ==
    \E i \in 1..Len(steps) :
        steps[i].observation
            = [success |-> TRUE, message |-> "Campaign published successfully!"]

C17_PublishMarksConversation ==
    /\ (pc = "end" /\ PublishSucceeded) =>
          \A i \in 1..Len(conversations) : conversations[i].state = "published"
    /\ (\E i \in 1..Len(conversations) : conversations[i].state = "published") =>
          published # <<>>

(***************************************************************************)
(* C18.  Every conversation is in state idle right after its creation,     *)
(* whichever path created it: the chat endpoint, create_conversation, the  *)
(* chat service, or setup_pages, which leaves the state to the column      *)
(* default.                                                                *)
(***************************************************************************)
C18_Step ==
    \A i \in (Len(conversations) + 1)..Len(conversations') :
        conversations'[i].state = "idle"

C18_CreatedIdle == [][C18_Step]_vars

\* setup_pages has just created the overview and the page conversation
C18_Witness ==
    /\ last_call = [op |-> "setup_pages", raised |-> FALSE, created |-> 2]
    /\ Len(conversations) >= 2
    /\ \A i \in (Len(conversations) - 1)..Len(conversations) :
          conversations[i].state = "idle"


(***************************************************************************)
(* C19.  Every campaign, ad set and ad that a publish path creates on the  *)
(* platform is created with status PAUSED, whether the path is the         *)
(* publish_campaign tool or the publish endpoint.                          *)
(***************************************************************************)
CreatedPaused(row) ==
    /\ row.status = "PAUSED"
    /\ row.complete => (row.adset_status = "PAUSED" /\ row.ad_status = "PAUSED")
    /\ ~row.complete => (row.adset_status = "None" /\ row.ad_status = "None")

C19_Step ==
    \A i \in (Len(campaigns) + 1)..Len(campaigns') : CreatedPaused(campaigns'[i])

C19_CreatedPaused == [][C19_Step]_vars

\* the endpoint, whose ad set dict carries no status, has created a whole campaign
C19_Witness ==
    /\ endpointCalls >= 1
    /\ \E i \in 1..Len(campaigns) :
          /\ campaigns[i].complete
          /\ campaigns[i].status = "PAUSED"
          /\ campaigns[i].adset_status = "PAUSED"
          /\ campaigns[i].ad_status = "PAUSED"


(***************************************************************************)
(* C20.  When the performance fetch fails while the context of a page chat *)
(* is assembled, the bundle still carries the history, the settings and    *)
(* the products of the page, its performance field is a placeholder, and   *)
(* the bundle is marked degraded; a bundle built from a successful fetch   *)
(* carries no such mark.                                                   *)
(***************************************************************************)
MarkedDegraded(bundle) ==
    \/ Get(bundle, "degraded", FALSE) = TRUE
    \/ /\ "page_performance" \in DOMAIN bundle
       /\ Get(bundle.page_performance, "degraded", FALSE) = TRUE

PageChatAssembled ==
    /\ context # NoContext
    /\ ctx_args.chat_type = "page_war_room" /\ ctx_args.page_id = "p1"
    /\ ctx_args.ad_account

C20_DegradedMarked ==
    PageChatAssembled =>
        /\ {"page_history", "page_settings", "page_products"} \subseteq DOMAIN context
        /\ ctx_args.fetch \in {"error", "raises"} => MarkedDegraded(context)
        /\ ctx_args.fetch = "ok" => ~MarkedDegraded(context)


(***************************************************************************)
(* C21.  Context assembly is read-only: whatever the chat type and the     *)
(* outcome (figures, missing page, failed fetch), a call of                *)
(* get_context_for_chat leaves the conversations, their messages, the      *)
(* workspace pages and the arguments' view of the stored data unchanged.   *)
(***************************************************************************)
C21_Step ==
    (context' # context) =>
        /\ messages' = messages
        /\ conversations' = conversations
        /\ workspace_pages' = workspace_pages
        /\ setup_completed' = setup_completed
        /\ drafts' = drafts
        /\ ctx_args' = ctx_args

IsStatsResult(step) ==
    step.action.tool = "get_account_stats" /\ "spend" \in DOMAIN step.observation

CarriesMarker(result) ==
    \/ Get(result, "is_real_data", TRUE) = FALSE
    \/ Get(result, "is_mock", FALSE) = TRUE
    \/ Get(result, "is_estimate", FALSE) = TRUE

C22_FallbackIsMarked ==
    \A i \in 1..Len(steps) :
        IsStatsResult(steps[i]) =>
            /\ steps[i].observation.spend # "live" => CarriesMarker(steps[i].observation)
            /\ steps[i].observation.spend = "live" => ~CarriesMarker(steps[i].observation)


(***************************************************************************)
(* C23.  Every variant a copy-generation call returns has a headline of at *)
(* most 40, a description of at most 90 and a primary text of at most 300  *)
(* characters, or says that it was truncated or rejected.                  *)
(***************************************************************************)
WithinCopyLimits(v) ==
    /\ Len(v.headline) <= 40
    /\ Len(v.description) <= 90
    /\ Len(v.primary_text) <= 300

SaysTruncatedOrRejected(v) ==
    DOMAIN v \cap {"truncated", "rejected", "error", "violations"} # {}

C23_CopyWithinLimits ==
    variants.called =>
        \A i \in 1..Len(variants.result) :
            \/ WithinCopyLimits(variants.result[i])
            \/ SaysTruncatedOrRejected(variants.result[i])


(***************************************************************************)
(* C24.  The history a turn gives to the model is the most recent 20       *)
(* messages of the conversation, oldest first: when the conversation holds *)
(* more than 20, the window holds the latest ones.                         *)
(***************************************************************************)
\* the last n elements of q, or all of q
LastN(q, n) == SubSeq(q, IF Len(q) > n THEN Len(q) - n + 1 ELSE 1, Len(q))

C24_RecentWindow ==
    history.called =>
        history.window = LastN(SubSeq(messages, 1, history.upto), 20)

(***************************************************************************)
(* C25.  The message history is append-only: a chat turn or a send_message *)
(* call adds one message at the end and leaves the messages before it as   *)
(* they were, and the assistant message of a turn comes after the user     *)
(* message of that turn.                                                   *)
(***************************************************************************)
C25_Step ==
    (messages' # messages) =>
        /\ Len(messages') = Len(messages) + 1
        /\ SubSeq(messages', 1, Len(messages)) = messages
        /\ messages'[Len(messages')].role = "assistant" =>
              \E t \in open_turns \ open_turns' :
                  t <= Len(messages) /\ messages'[t].role = "user"

C25_AppendOnly == [][C25_Step]_vars

\* two turns streamed at once on a stored history; both answers are stored
C25_Witness ==
    /\ Len(messages) = 24
    /\ messages[21].role = "user" /\ messages[22].role = "user"
    /\ messages[23].role = "assistant" /\ messages[24].role = "assistant"
    /\ open_turns = {}


(***************************************************************************)
(* C26.  However often and by whichever path a draft is published, it has  *)
(* at most one PublishedCampaign record and at most one campaign on the    *)
(* platform.                                                               *)
(***************************************************************************)
RecordsOf(d) == {i \in DOMAIN published : published[i].ad_draft_id = d}

CampaignsOf(d) == {i \in DOMAIN campaigns : campaigns[i].draft = d}

C26_OnePublishPerDraft ==
    \A d \in DOMAIN drafts :
        Cardinality(RecordsOf(d)) <= 1 /\ Cardinality(CampaignsOf(d)) <= 1

(***************************************************************************)
(* C27.  A draft has the status published exactly when a PublishedCampaign *)
(* record refers to it; no request other than a successful publish makes   *)
(* the status published.                                                   *)
(***************************************************************************)
C27_PublishedIffRecord ==
    \A d \in DOMAIN drafts :
        (drafts[d].status = "published") <=> (RecordsOf(d) # {})


(***************************************************************************)
(* C28.  Whatever the interleaving of the requests that open chats, a      *)
(* workspace has at most one Account Overview conversation and each of its *)
(* pages at most one Page War Room.                                        *)
(***************************************************************************)
OverviewChats ==
    {i \in DOMAIN conversations : /\ conversations[i].chat_type = "account_overview"
                                  /\ conversations[i].workspace_id = TheWorkspace}

PageChats(p) ==
    {i \in DOMAIN conversations : /\ conversations[i].chat_type = "page_war_room"
                                  /\ conversations[i].workspace_page_id = p}

C28_OneChatEach ==
    /\ Cardinality(OverviewChats) <= 1
    /\ \A p \in DOMAIN workspace_pages : Cardinality(PageChats(p)) <= 1


(***************************************************************************)
(* C29.  Every conversation belongs to its user alone: the workspace it    *)
(* names is a workspace of that user, and the page it names is a page of   *)
(* that workspace.  All conversations of the model are rows of TheUser.    *)
(***************************************************************************)
OwnedByUser(row) ==
    /\ row.workspace_id # None => OwnerOf(row.workspace_id) = TheUser
    /\ row.workspace_page_id # None =>
          /\ OwnerOf(WorkspaceOf(row.workspace_page_id)) = TheUser
          /\ row.workspace_id # None => WorkspaceOf(row.workspace_page_id) = row.workspace_id

C29_OwnedByUser ==
    \A i \in DOMAIN conversations : OwnedByUser(conversations[i])


(***************************************************************************)
(* C30.  After migrate_legacy_conversations has returned without an error  *)
(* every conversation of the user that has no workspace is archived: it    *)
(* has is_archived set, the chat type legacy and a summary that is not     *)
(* empty.  This includes the conversations that were legacy before.        *)
(***************************************************************************)
Migrated == last_call.op = "migrate_legacy_conversations" /\ ~last_call.raised

IsArchived(row) ==
    /\ row.is_archived /\ row.chat_type = "legacy"
    /\ row.archive_summary # None /\ row.archive_summary # ""

C30_AllLegacyArchived ==
    Migrated =>
        \A i \in DOMAIN conversations :
            conversations[i].workspace_id = None => IsArchived(conversations[i])


====
